---- MODULE Spec2Model ----
(***************************************************************************)
(* The xwiimote Rust bindings: the process-wide reactor (IoBlocker,        *)
(* src/src/io_blocker.rs), the device event stream (EventStream,           *)
(* src/src/event.rs) and the discovery stream (Monitor, src/src/lib.rs).   *)
(* The raw event decoder (Event::parse, src/src/event.rs) and the channel  *)
(* state of a Device (src/src/lib.rs) are modelled with them.              *)
(*                                                                         *)
(* The kernel's epoll instance is modelled by its interest list            *)
(* (interest) and its ready list (rdy).  Registrations are edge-triggered  *)
(* (EPOLLET, io_blocker.rs:84): a descriptor enters the ready list when it *)
(* is added while readable and on every later arrival of data, and         *)
(* epoll_wait takes it out of the ready list when it reports it.           *)
(***************************************************************************)
EXTENDS Integers, Sequences, FiniteSets, TLC

\* ---------------------------------------------------------------- bounds
\* wake callbacks (Waker clones) handed to set_callback in one run
MaxCallbacks == 2
\* raw reactor calls made by the direct client of the reactor
MaxCalls == 3

\* records that arrive for the device in one run
MaxRecords == 2
\* iface_dispatch calls made in one run
MaxDispatch == 4
\* hot-plug events posted to the monitor in one run
MaxHot == 2

\* ------------------------------------------------------------- constants
\* Vec::with_capacity(16): the most events one epoll_wait reports
EventsCapacity == 16

\* descriptors: stdin/stdout are the ones the reactor's own tests use,
\* dev is the device's descriptor (iface_get_fd), mon the monitor's.
RawFd == "stdin"
TestFd == "stdout"
DevFd == "dev"
MonFd == "mon"
Fds == {RawFd, TestFd, DevFd, MonFd}

\* tasks owning wake callbacks
Tasks == {"raw", "test", "es", "mon"}

NoWaker == 0
WakerIds == 1..MaxCallbacks

\* the threads that touch IoBlocker.wakers: the background thread and two
\* threads that run tasks
Threads == {"loop", "raw", "test"}

VARIABLES
  \* --- reactor (IoBlocker) and the kernel's epoll instance
  interest,     \* descriptors registered with the epoll instance
  rdy,          \* the epoll ready list (pending edge notifications)
  events,       \* the events vector filled by the last epoll_wait
  wakers,       \* IoBlocker.wakers: descriptor -> stored waker (NoWaker: none)
  loopPc,       \* position of the background thread in run()/wake_ready()
  term,         \* the SIGTERM flag
  \* --- wakers and the executor's view of them
  nextW,        \* next fresh waker identity
  woke,         \* waker -> number of times wake() was called on it
  owner,        \* waker -> task it wakes
  notified,     \* tasks whose waker was invoked since their last poll
  \* --- a direct client of the reactor on RawFd
  level,        \* raw descriptors that are currently readable/writable
  clPc,         \* "idle", or "rm" between epoll_ctl(DEL) and the map removal
  last,         \* the last completed reactor call of the client and its result
  nCalls,       \* reactor calls started by the client
  added,        \* history: add_interest(RawFd) succeeded, no remove_interest since
  pendAtCall,   \* history: the waker stored for RawFd when remove_interest was called
  \* --- tests::event_wakes_future on TestFd
  testPc,       \* "start", "poll", "parked", "done", "error"
  futFirst,     \* StdoutFuture.0
  testPolls,    \* number of polls of the future
  \* --- the device (kernel side) behind one Device handle
  buf,          \* records buffered for iface_dispatch, oldest first
  nArr,         \* records that have arrived so far
  devFail,      \* the device node fails: dispatch reports an I/O error
  arrived,      \* history: every record that has arrived, in order
  \* --- the Device value and the channels of its handle
  opened,       \* channels open on the handle (iface_opened)
  openedW,      \* the primary channel is open in writable mode
  core_open,    \* Device.core_open
  unopenable,   \* channels whose open always fails (extension not plugged in)
  motor,        \* the rumble motor runs
  chLast,       \* the last call on the Device and what it did
  devAlive,     \* the Device value exists (connect returned it, not yet dropped)
  released,     \* iface_unref calls made on the Device's handle
  \* --- EventStream (the one stream of the device that can still act)
  esPc,         \* "none", "ready", "setcb", "suspended", "rm_poll", "rm_drop", "aborted",
                \* "dropped", "panicked"
  have_interest,\* EventStream.have_interest
  esOut,        \* what the last poll_next returned
  lastNew,      \* result of the last try_new
  gone,         \* history: this stream dispatched a removal record
  rmCalls,      \* history: IoBlocker::remove_interest calls made by this stream
  nDispatch,    \* iface_dispatch calls made on the device handle
  endPolled,    \* history: poll_next was called on this stream after it ended
  last_event,   \* EventStream.last_event: the record of the last successful dispatch
  parsed,       \* what Event::parse made of last_event (NotParsed: nothing yet)
  esStart,      \* history: records dispatched from the device before this stream
  esYield,      \* history: the events this stream has yielded, in order
  \* --- the discovery source behind one monitor handle
  src0,         \* the connected devices at monitor_new
  src,          \* connected devices not yet returned by monitor_poll
  nullDone,     \* monitor_poll has returned the null that ends the enumeration
  hot,          \* hot-plugged addresses queued on the monitor descriptor
  posted,       \* history: every hot-plugged address, in order
  \* --- Monitor (lib.rs)
  monPc,        \* "none", "ready", "repoll", "setcb", "suspended", "rm_drop",
                \* "dropped", "panicked"
  discover,     \* the flag given to Monitor::new
  mon_fd,       \* Monitor.fd: "None" or "Some"
  enumerated,   \* Monitor.enumerated
  monOut,       \* what the last poll_next returned
  monYield,     \* history: the addresses yielded so far
  monRm,        \* history: IoBlocker::remove_interest calls made by the monitor
  monReg,       \* history: the monitor's add_interest succeeded
  monAdds,      \* history: IoBlocker::add_interest calls made by the monitor
  nMonPoll,     \* monitor_poll calls made on the handle
  monEndAgain,  \* history: poll_next was called after the stream ended
  \* --- IoBlocker.wakers: the Mutex around the map, seen step by step
  holder,       \* the thread that holds the MutexGuard, or "none"
  mxPc,         \* per thread: "out", "insert"/"take" (guard held, map access
                \* next), "relock" (in lock() while holding the guard), "panicked"
  inlineW,      \* wakers whose wake() re-arms the descriptor before it returns
  poisoned,     \* a thread panicked while holding the guard
  \* --- IoBlocker::get: the static BLOCKER and the threads that call get
  lazy,         \* the Lazy cell: "uninit", "running" (its closure runs), "done",
                \* "poisoned" (its closure panicked)
  getPc,        \* per calling thread: "out", "spawn", "epoll" (in the closure),
                \* "wait" (blocked on the cell), "got", "panicked"
  got,          \* per thread: the ep_fd of the instance get returned (0: none yet)
  loopT,        \* spawned background threads and where each is: "get", "run", "panicked"
  nEp           \* epoll instances created so far

reactorVars == <<interest, rdy, events, wakers, loopPc, term>>
wakerVars == <<nextW, woke, owner, notified>>
rawVars == <<level, clPc, last, nCalls, added, pendAtCall>>
testVars == <<testPc, futFirst, testPolls>>
chanVars == <<opened, openedW, core_open, unopenable, motor, chLast, devAlive, released>>
devVars == <<buf, nArr, devFail, arrived, chanVars>>
esVars == <<esPc, have_interest, esOut, lastNew, gone, rmCalls, nDispatch, endPolled,
           last_event, parsed, esStart, esYield>>
srcVars == <<src0, src, nullDone, hot, posted>>
monVars == <<monPc, discover, mon_fd, enumerated, monOut, monYield, monRm, monReg, monAdds,
            nMonPoll, monEndAgain>>
streamVars == <<devVars, esVars, srcVars, monVars>>
clientVars == <<rawVars, testVars>>
lockVars == <<holder, mxPc, inlineW, poisoned>>
onceVars == <<lazy, getPc, got, loopT, nEp>>
vars == <<reactorVars, wakerVars, rawVars, testVars, streamVars, lockVars, onceVars>>

\* ------------------------------------------------------------ the kernel

\* Is the descriptor readable (writable, for stdout) right now?
Readable(fd) ==
  IF fd \in {RawFd, TestFd} THEN fd \in level
  ELSE IF fd = DevFd THEN buf # <<>> \/ devFail
  ELSE hot # <<>>

\* close(self.ep_fd) has run: the epoll instance is gone
EpClosed == loopPc = "exited"

\* New data on fd: an edge for the epoll instance when fd is registered.
EdgeOn(fd) == IF fd \in interest THEN rdy \cup {fd} ELSE rdy

\* -------------------------------------------------------------- IoBlocker

\* Mutant: EPOLL_CTL_ADD of a registered descriptor re-arms it and succeeds.
ctl_interest_res_NoExist(op, fd) ==
  IF EpClosed THEN "EBADF"
  ELSE IF op = "ADD" THEN "OK"
  ELSE IF fd \in interest THEN "OK" ELSE "ENOENT"

\* Mutant: EPOLL_CTL_DEL of a descriptor that is not registered succeeds.
ctl_interest_res_DelAny(op, fd) ==
  IF EpClosed THEN "EBADF"
  ELSE IF op = "ADD"
       THEN IF fd \in interest THEN "EEXIST" ELSE "OK"
       ELSE "OK"

\* The outcome of ctl_interest(op, fd, _): epoll_ctl's result code, mapped by
\* bail_if! to Err(last_os_error).
ctl_interest_res(op, fd) ==
  IF EpClosed THEN "EBADF"
  ELSE IF op = "ADD"
       THEN IF fd \in interest THEN "EEXIST" ELSE "OK"
       ELSE IF fd \in interest THEN "OK" ELSE "ENOENT"

\* The effect of ctl_interest(op, fd, _) on the epoll instance.
ctl_interest(op, fd) ==
  IF ctl_interest_res(op, fd) # "OK"
  THEN UNCHANGED <<interest, rdy>>
  ELSE IF op = "ADD"
       THEN /\ interest' = interest \cup {fd}
            /\ rdy' = IF Readable(fd) THEN rdy \cup {fd} ELSE rdy
       ELSE /\ interest' = interest \ {fd}
            /\ rdy' = rdy \ {fd}

\* add_interest(fd, events)
add_interest(fd) == ctl_interest("ADD", fd)

\* The wakers stored for the descriptors of F.
StoredFor(F) == {wakers[f] : f \in F} \ {NoWaker}

\* Mutant: the waker is taken out of the map and dropped without wake().
TakeAndWake_NoWake(F) ==
  /\ wakers' = [f \in Fds |-> IF f \in F THEN NoWaker ELSE wakers[f]]
  /\ UNCHANGED <<woke, notified>>

\* Mutant: the waker is looked up and woken but left in the map.
TakeAndWake_Keep(F) ==
  /\ wakers' = wakers
  /\ woke' = [w \in WakerIds |-> IF w \in StoredFor(F) THEN woke[w] + 1 ELSE woke[w]]
  /\ notified' = notified \cup {owner[w] : w \in StoredFor(F)}

\* Under the wakers lock: `if let Some(waker) = wakers.remove(&fd) { waker.wake() }`
\* for every fd of F.
TakeAndWake(F) ==
  /\ wakers' = [f \in Fds |-> IF f \in F THEN NoWaker ELSE wakers[f]]
  /\ woke' = [w \in WakerIds |-> IF w \in StoredFor(F) THEN woke[w] + 1 ELSE woke[w]]
  /\ notified' = notified \cup {owner[w] : w \in StoredFor(F)}

\* Mutant: a callback already stored for fd is kept (entry().or_insert).
set_callback_KeepFirst(fd, task) ==
  /\ nextW <= MaxCallbacks
  /\ wakers' = IF wakers[fd] = NoWaker THEN [wakers EXCEPT ![fd] = nextW] ELSE wakers
  /\ owner' = [owner EXCEPT ![nextW] = task]
  /\ nextW' = nextW + 1

\* set_callback(fd, waker) with a fresh clone of task's waker.
set_callback(fd, task) ==
  /\ nextW <= MaxCallbacks
  /\ wakers' = [wakers EXCEPT ![fd] = nextW]
  /\ owner' = [owner EXCEPT ![nextW] = task]
  /\ nextW' = nextW + 1

\* --- the background thread: run() and wake_ready()

\* Mutant: the flag is not looked at.
run_loops_Always == TRUE

\* run: the condition of `while !term.load(Ordering::Relaxed)`
run_loops == ~term

\* The loop's condition: leave the loop, close the epoll descriptor and
\* return Ok(()), or enter wake_ready and block in epoll_wait.
LoopCheck ==
  /\ loopPc = "check"
  /\ IF ~run_loops
     THEN /\ loopPc' = "exited"
          /\ interest' = {}
          /\ rdy' = {}
     ELSE /\ loopPc' = "wait"
          /\ UNCHANGED <<interest, rdy>>
  /\ UNCHANGED <<events, wakers, term, wakerVars, rawVars, testVars, streamVars, lockVars, onceVars>>

\* epoll_wait returns the ready descriptors, at most the vector's capacity.
LoopWait ==
  /\ loopPc = "wait"
  /\ rdy # {}
  /\ \E S \in SUBSET rdy :
       /\ S # {}
       /\ Cardinality(S) = IF Cardinality(rdy) <= EventsCapacity
                           THEN Cardinality(rdy) ELSE EventsCapacity
       /\ events' = S
       /\ rdy' = rdy \ S
  /\ loopPc' = "wake"
  /\ UNCHANGED <<interest, wakers, term, wakerVars, rawVars, testVars, streamVars, lockVars, onceVars>>

\* The rest of wake_ready: lock the map, take and wake the waker of every
\* reported descriptor.
LoopWake ==
  /\ loopPc = "wake"
  /\ TakeAndWake(events)
  /\ events' = {}
  /\ loopPc' = "check"
  /\ UNCHANGED <<interest, rdy, term, nextW, owner, rawVars, testVars, streamVars, lockVars, onceVars>>

\* SIGTERM: the handler sets the flag.  When the signal is delivered on the
\* background thread while it is blocked, epoll_wait fails with EINTR,
\* wake_ready bails and `run().expect(..)` ends the thread with the epoll
\* descriptor still open.
Signal ==
  /\ ~term
  /\ term' = TRUE
  /\ \/ UNCHANGED loopPc
     \/ /\ loopPc = "wait"
        /\ loopPc' = "failed"
  /\ UNCHANGED <<interest, rdy, events, wakers, wakerVars, rawVars, testVars, streamVars, lockVars, onceVars>>

LoopNext == LoopCheck \/ LoopWait \/ LoopWake

\* ------------------------------------------- a direct client of the reactor

\* The descriptor becomes ready (again): a readiness edge.
FdEdge(fd) ==
  /\ fd \in {RawFd, TestFd}
  /\ level' = level \cup {fd}
  /\ rdy' = EdgeOn(fd)
  /\ rdy' # rdy \/ level' # level
  /\ UNCHANGED <<interest, events, wakers, loopPc, term, wakerVars,
                 clPc, last, nCalls, added, pendAtCall, testVars, streamVars, lockVars, onceVars>>

\* The descriptor stops being ready.
FdDrain(fd) ==
  /\ fd \in level
  /\ level' = level \ {fd}
  /\ UNCHANGED <<reactorVars, wakerVars, clPc, last, nCalls, added, pendAtCall, testVars, streamVars, lockVars, onceVars>>

\* blocker.add_interest(RawFd, _)
RawAdd ==
  /\ clPc = "idle"
  /\ nCalls < MaxCalls
  /\ nCalls' = nCalls + 1
  /\ add_interest(RawFd)
  /\ last' = [op |-> "add", res |-> ctl_interest_res("ADD", RawFd)]
  /\ added' = (added \/ ctl_interest_res("ADD", RawFd) = "OK")
  /\ UNCHANGED <<events, wakers, loopPc, term, wakerVars, level, clPc, pendAtCall, testVars, streamVars, lockVars, onceVars>>

\* blocker.set_callback(RawFd, waker)
RawSetCallback ==
  /\ clPc = "idle"
  /\ nCalls < MaxCalls
  /\ nCalls' = nCalls + 1
  /\ set_callback(RawFd, "raw")
  /\ last' = [op |-> "set", res |-> "OK"]
  /\ UNCHANGED <<interest, rdy, events, loopPc, term, woke, notified,
                 level, clPc, added, pendAtCall, testVars, streamVars, lockVars, onceVars>>

\* blocker.remove_interest(RawFd, _), up to the `?` after ctl_interest
RawRemove ==
  /\ clPc = "idle"
  /\ nCalls < MaxCalls
  /\ nCalls' = nCalls + 1
  /\ ctl_interest("DEL", RawFd)
  /\ pendAtCall' = wakers[RawFd]
  /\ IF ctl_interest_res("DEL", RawFd) = "OK"
     THEN /\ clPc' = "rm"
          /\ added' = FALSE
          /\ last' = [op |-> "remove", res |-> "running"]
     ELSE /\ last' = [op |-> "remove", res |-> ctl_interest_res("DEL", RawFd)]
          /\ UNCHANGED <<clPc, added>>
  /\ UNCHANGED <<events, wakers, loopPc, term, wakerVars, level, testVars, streamVars, lockVars, onceVars>>

\* the rest of remove_interest: lock the map, take and wake the waker
RawRemoveFinish ==
  /\ clPc = "rm"
  /\ TakeAndWake({RawFd})
  /\ clPc' = "idle"
  /\ last' = [op |-> "remove", res |-> "OK"]
  /\ UNCHANGED <<interest, rdy, events, loopPc, term, nextW, owner,
                 level, nCalls, added, pendAtCall, testVars, streamVars, lockVars, onceVars>>

RawNext ==
  \/ RawAdd \/ RawSetCallback \/ RawRemove \/ RawRemoveFinish
  \/ \E fd \in {RawFd, TestFd} : FdEdge(fd)
  \/ \E fd \in {RawFd, TestFd} : FdDrain(fd)

\* ------------------------------------------- tests::event_wakes_future

\* IoBlocker::get().add_interest(FD, libc::EPOLLOUT)?
TestAdd ==
  /\ testPc = "start"
  /\ add_interest(TestFd)
  /\ testPc' = IF ctl_interest_res("ADD", TestFd) = "OK" THEN "poll" ELSE "error"
  /\ UNCHANGED <<events, wakers, loopPc, term, wakerVars, rawVars, futFirst, testPolls, streamVars, lockVars, onceVars>>

\* StdoutFuture::poll, driven by executor::block_on: polled once, and again
\* each time its waker was invoked.
TestPoll ==
  /\ \/ testPc = "poll"
     \/ testPc = "parked" /\ "test" \in notified
  /\ testPolls' = testPolls + 1
  /\ IF futFirst
     THEN /\ set_callback(TestFd, "test")
          /\ futFirst' = FALSE
          /\ testPc' = "parked"
          /\ notified' = notified \ {"test"}
          /\ UNCHANGED woke
     ELSE /\ testPc' = "done"
          /\ notified' = notified \ {"test"}
          /\ UNCHANGED <<wakers, nextW, owner, woke, futFirst>>
  /\ UNCHANGED <<interest, rdy, events, loopPc, term, rawVars, streamVars, lockVars, onceVars>>

TestNext == TestAdd \/ TestPoll

\* ------------------------------ IoBlocker.wakers: the Mutex, step by step

\* The loop, remove_interest and set_callback above each treat "lock, access
\* the map, drop the guard" as one step.  Here the lock and the access are
\* steps of their own, for the background thread and for two threads that
\* call set_callback and remove_interest on their descriptor.

\* the descriptor a task thread works on
FdOf(t) == IF t = "raw" THEN RawFd ELSE TestFd

\* Mutant: the map is reached without waiting for the guard.
mutex_free_Unchecked == TRUE

\* self.wakers.lock() returns when no other guard exists
mutex_free == holder = "none"

\* `self.wakers.lock().unwrap()` by thread t, about to do `op`: the guard is
\* taken, or unwrap panics on a poisoned mutex.
MxLock(t, op) ==
  /\ mxPc[t] = "out"
  /\ mutex_free
  /\ IF poisoned
     THEN /\ mxPc' = [mxPc EXCEPT ![t] = "panicked"]
          /\ UNCHANGED holder
     ELSE /\ mxPc' = [mxPc EXCEPT ![t] = op]
          /\ holder' = t

\* wake_ready: epoll_wait has reported the descriptors F; lock the map.
MxLoopLock(F) ==
  /\ F # {}
  /\ events = {}
  /\ MxLock("loop", "take")
  /\ events' = IF poisoned THEN events ELSE F
  /\ UNCHANGED <<interest, rdy, wakers, loopPc, term, wakerVars, clientVars, streamVars,
                 inlineW, poisoned, onceVars>>

\* remove_interest after a successful ctl_interest: lock the map.
MxRemoveLock(t) ==
  /\ t # "loop"
  /\ MxLock(t, "take")
  /\ UNCHANGED <<reactorVars, wakerVars, clientVars, streamVars, inlineW, poisoned, onceVars>>

\* set_callback: lock the map.
MxSetLock(t) ==
  /\ t # "loop"
  /\ nextW <= MaxCallbacks
  /\ MxLock(t, "insert")
  /\ UNCHANGED <<reactorVars, wakerVars, clientVars, streamVars, inlineW, poisoned, onceVars>>

\* set_callback with the guard: insert, drop the guard.  The waker stored is
\* one that only notifies its task, or one whose wake() re-arms at once.
MxInsert(t, inline) ==
  /\ mxPc[t] = "insert"
  /\ set_callback(FdOf(t), t)
  /\ inlineW' = IF inline THEN inlineW \cup {nextW} ELSE inlineW
  /\ mxPc' = [mxPc EXCEPT ![t] = "out"]
  /\ holder' = IF holder = t THEN "none" ELSE holder
  /\ UNCHANGED <<interest, rdy, events, loopPc, term, woke, notified, clientVars,
                 streamVars, poisoned, onceVars>>

\* the descriptors thread t takes wakers for
TakeSet(t) == IF t = "loop" THEN events ELSE {FdOf(t)}

\* With the guard: remove and wake the waker of each descriptor, drop the
\* guard when the function returns.
MxTake(t) ==
  /\ mxPc[t] = "take"
  /\ StoredFor(TakeSet(t)) \cap inlineW = {}
  /\ TakeAndWake(TakeSet(t))
  /\ events' = IF t = "loop" THEN {} ELSE events
  /\ mxPc' = [mxPc EXCEPT ![t] = "out"]
  /\ holder' = IF holder = t THEN "none" ELSE holder
  /\ UNCHANGED <<interest, rdy, loopPc, term, nextW, owner, clientVars, streamVars,
                 inlineW, poisoned, onceVars>>

\* With the guard: the waker of descriptor f re-arms inside wake(), that is
\* it calls set_callback(f, _), which calls self.wakers.lock() on the thread
\* that holds the guard.  The descriptors of P were handled before f.
MxTakeInline(t, f, P) ==
  /\ mxPc[t] = "take"
  /\ f \in TakeSet(t)
  /\ wakers[f] \in inlineW
  /\ P \subseteq TakeSet(t) \ {f}
  /\ StoredFor(P) \cap inlineW = {}
  /\ TakeAndWake(P \cup {f})
  /\ mxPc' = [mxPc EXCEPT ![t] = "relock"]
  /\ UNCHANGED <<interest, rdy, events, loopPc, term, nextW, owner, clientVars,
                 streamVars, holder, inlineW, poisoned, onceVars>>

\* std::sync::Mutex::lock on the thread that holds the guard does not
\* return: it blocks for good (no step), or it panics, and the unwinding
\* thread drops its guard, which poisons the mutex.
MxRelockPanic(t) ==
  /\ mxPc[t] = "relock"
  /\ mxPc' = [mxPc EXCEPT ![t] = "panicked"]
  /\ holder' = IF holder = t THEN "none" ELSE holder
  /\ poisoned' = TRUE
  /\ UNCHANGED <<reactorVars, wakerVars, clientVars, streamVars, inlineW, onceVars>>

MutexNext ==
  \/ \E F \in SUBSET {RawFd, TestFd} : MxLoopLock(F)
  \/ \E t \in Threads : MxRemoveLock(t) \/ MxSetLock(t) \/ MxTake(t) \/ MxRelockPanic(t)
  \/ \E t \in Threads, inline \in BOOLEAN : MxInsert(t, inline)
  \/ \E t \in Threads, f \in {RawFd, TestFd}, P \in SUBSET {RawFd, TestFd} :
       MxTakeInline(t, f, P)

\* ------------------------------------------- IoBlocker::get, step by step

\* Mutant: a thread that finds the cell not yet filled runs the closure,
\* whether or not another thread is running it.
lazy_claimable_Racy == lazy \in {"uninit", "running"}

\* once_cell::sync::Lazy: the closure is run by the first thread to get
\* there, while the cell is neither filled nor being filled
lazy_claimable == lazy = "uninit"

\* what a thread that finds the cell in state l does next: nothing while
\* the closure runs, return the instance once it is filled, panic when the
\* closure panicked ("Lazy instance has previously been poisoned")
ForceLazy(l) == IF l = "done" THEN "got" ELSE IF l = "poisoned" THEN "panicked" ELSE "wait"

\* IoBlocker::get() on thread t: &BLOCKER forces the cell
GetCall(t) ==
  /\ getPc[t] \in {"out", "got"}
  /\ IF lazy_claimable
     THEN /\ lazy' = "running"
          /\ getPc' = [getPc EXCEPT ![t] = "spawn"]
          /\ UNCHANGED got
     ELSE /\ getPc' = [getPc EXCEPT ![t] = ForceLazy(lazy)]
          /\ got' = [got EXCEPT ![t] = IF lazy = "done" THEN nEp ELSE got[t]]
          /\ UNCHANGED lazy
  /\ UNCHANGED <<reactorVars, wakerVars, clientVars, streamVars, lockVars, loopT, nEp>>

\* a thread blocked on the cell goes on when the closure has ended
GetWait(t) ==
  /\ getPc[t] = "wait"
  /\ lazy \in {"done", "poisoned"}
  /\ getPc' = [getPc EXCEPT ![t] = ForceLazy(lazy)]
  /\ got' = [got EXCEPT ![t] = IF lazy = "done" THEN nEp ELSE got[t]]
  /\ UNCHANGED <<reactorVars, wakerVars, clientVars, streamVars, lockVars, lazy, loopT, nEp>>

\* the closure: thread::spawn(move || { IoBlocker::get().run() })
GetSpawn(t) ==
  /\ getPc[t] = "spawn"
  /\ loopT' = Append(loopT, "get")
  /\ getPc' = [getPc EXCEPT ![t] = "epoll"]
  /\ UNCHANGED <<reactorVars, wakerVars, clientVars, streamVars, lockVars, lazy, got, nEp>>

\* the closure: epoll_create1, assert_ne!(ep_fd, -1), the IoBlocker value;
\* the cell is filled and get returns
GetEpoll(t, ok) ==
  /\ getPc[t] = "epoll"
  /\ IF ok
     THEN /\ nEp' = nEp + 1
          /\ lazy' = "done"
          /\ getPc' = [getPc EXCEPT ![t] = "got"]
          /\ got' = [got EXCEPT ![t] = nEp + 1]
     ELSE /\ lazy' = "poisoned"
          /\ getPc' = [getPc EXCEPT ![t] = "panicked"]
          /\ UNCHANGED <<nEp, got>>
  /\ UNCHANGED <<reactorVars, wakerVars, clientVars, streamVars, lockVars, loopT>>

\* a spawned thread: IoBlocker::get() returns once the cell is filled, then
\* run() starts; it panics when the closure panicked
LoopGet(i) ==
  /\ i \in 1..Len(loopT)
  /\ loopT[i] = "get"
  /\ lazy \in {"done", "poisoned"}
  /\ loopT' = [loopT EXCEPT ![i] = IF lazy = "done" THEN "run" ELSE "panicked"]
  /\ UNCHANGED <<reactorVars, wakerVars, clientVars, streamVars, lockVars, lazy, getPc,
                 got, nEp>>

OnceNext ==
  \/ \E t \in Tasks : GetCall(t) \/ GetWait(t) \/ GetSpawn(t)
  \/ \E t \in Tasks, ok \in BOOLEAN : GetEpoll(t, ok)
  \/ \E i \in DOMAIN loopT : LoopGet(i)

\* threads whose next step reads or changes the map
InMap == {t \in Threads : mxPc[t] \in {"insert", "take", "relock"}}

\* --------------------------------------------------- the raw event decoder

\* A raw record (xwiimote_sys::event): type_ is the tag, code/state are
\* v.key, abs is v.abs (slots 1..4 here are abs[0]..abs[3] in the source).
\* The key enumerations, as the discriminants the macros of event.rs give
\* their variants.
RegularKeys ==
  (0 :> "Left") @@ (1 :> "Right") @@ (2 :> "Up") @@ (3 :> "Down") @@ (4 :> "A")
    @@ (5 :> "B") @@ (6 :> "Plus") @@ (7 :> "Minus") @@ (8 :> "Home")

GamepadKeys ==
  RegularKeys @@ (11 :> "X") @@ (12 :> "Y") @@ (13 :> "TL") @@ (14 :> "TR")
    @@ (15 :> "ZL") @@ (16 :> "ZR")

Key == RegularKeys @@ (9 :> "One") @@ (10 :> "Two")

ProControllerKey == GamepadKeys @@ (17 :> "LeftThumb") @@ (18 :> "RightThumb")

ClassicControllerKey == GamepadKeys

NunchukKey == (19 :> "C") @@ (20 :> "Z")

DrumsKey == (6 :> "Plus") @@ (7 :> "Minus")

GuitarKey ==
  (6 :> "Plus") @@ (7 :> "Minus") @@ (8 :> "StarPower") @@ (21 :> "StrumBar")
    @@ (23 :> "HighestFretBar") @@ (24 :> "HighFretBar") @@ (25 :> "MidFretBar")
    @@ (26 :> "LowFretBar") @@ (27 :> "LowestFretBar")

KeyState == (0 :> "Up") @@ (1 :> "Down") @@ (2 :> "AutoRepeat")

\* the key enumeration each key tag is parsed with, and the event kind made
KeyEnumOf ==
  [EVENT_KEY |-> Key,
   EVENT_PRO_CONTROLLER_KEY |-> ProControllerKey,
   EVENT_CLASSIC_CONTROLLER_KEY |-> ClassicControllerKey,
   EVENT_NUNCHUK_KEY |-> NunchukKey,
   EVENT_DRUMS_KEY |-> DrumsKey,
   EVENT_GUITAR_KEY |-> GuitarKey]

KeyKindOf ==
  [EVENT_KEY |-> "Key",
   EVENT_PRO_CONTROLLER_KEY |-> "ProControllerKey",
   EVENT_CLASSIC_CONTROLLER_KEY |-> "ClassicControllerKey",
   EVENT_NUNCHUK_KEY |-> "NunchukKey",
   EVENT_DRUMS_KEY |-> "DrumsKey",
   EVENT_GUITAR_KEY |-> "GuitarKey"]

KeyTags == DOMAIN KeyEnumOf

\* the tags iface_dispatch can report (enum xwii_event_types)
EventTags ==
  KeyTags \cup {"EVENT_ACCEL", "EVENT_IR", "EVENT_BALANCE_BOARD", "EVENT_MOTION_PLUS",
                "EVENT_PRO_CONTROLLER_MOVE", "EVENT_WATCH", "EVENT_CLASSIC_CONTROLLER_MOVE",
                "EVENT_NUNCHUK_MOVE", "EVENT_DRUMS_MOVE", "EVENT_GUITAR_MOVE", "EVENT_GONE"}

Panic(why) == [kind |-> "panic", why |-> why]

\* no Event::parse result yet
NotParsed == [kind |-> "none"]

\* Mutant: any code that some key enumeration knows is accepted.
parse_key_AnyEnum(T, raw) ==
  LET all == Key @@ ProControllerKey @@ NunchukKey @@ GuitarKey IN
  IF raw.code \notin DOMAIN all THEN Panic("unknown key code")
  ELSE IF raw.state \notin DOMAIN KeyState THEN Panic("unknown key state")
  ELSE [kind |-> "keypair", key |-> all[raw.code], state |-> KeyState[raw.state]]

\* Event::parse_key::<T>: T::from_u32(code) and KeyState::from_u32(state),
\* each unwrapped with a panic.
parse_key(T, raw) ==
  IF raw.code \notin DOMAIN T THEN Panic("unknown key code")
  ELSE IF raw.state \notin DOMAIN KeyState THEN Panic("unknown key state")
  ELSE [kind |-> "keypair", key |-> T[raw.code], state |-> KeyState[raw.state]]

MAX_IR_SOURCES == 4
MISSING_SOURCE == 1023

\* "None" is Option::None
NoSource == [present |-> FALSE]

\* Mutant: a slot is dropped only when both coordinates are the sentinel.
IrSource_parse_BothAxes(raw) ==
  [ix \in 1..MAX_IR_SOURCES |->
     IF raw.abs[ix].x # MISSING_SOURCE \/ raw.abs[ix].y # MISSING_SOURCE
     THEN [present |-> TRUE, x |-> raw.abs[ix].x, y |-> raw.abs[ix].y]
     ELSE NoSource]

\* IrSource::parse
IrSource_parse(raw) ==
  [ix \in 1..MAX_IR_SOURCES |->
     IF raw.abs[ix].x # MISSING_SOURCE /\ raw.abs[ix].y # MISSING_SOURCE
     THEN [present |-> TRUE, x |-> raw.abs[ix].x, y |-> raw.abs[ix].y]
     ELSE NoSource]

\* `as u8` on an i32
AsU8(v) == v % 256

\* the last three arms of the match in Event::parse
Event_parse_other(raw) ==
  IF raw.type_ = "EVENT_DRUMS_MOVE" THEN Panic("not yet implemented")
  ELSE IF raw.type_ = "EVENT_GONE" THEN Panic("unexpected removal event")
  ELSE Panic("unexpected event type")

\* Event::parse, without the timestamp
Event_parse(raw) ==
  LET t == raw.type_
      a == raw.abs
  IN
  IF t \in KeyTags
  THEN LET k == parse_key(KeyEnumOf[t], raw) IN
       IF k.kind = "panic" THEN k
       ELSE [kind |-> KeyKindOf[t], key |-> k.key, state |-> k.state]
  ELSE IF t = "EVENT_ACCEL"
  THEN [kind |-> "Accelerometer", x |-> a[1].x, y |-> a[1].y, z |-> a[1].z]
  ELSE IF t = "EVENT_IR"
  THEN [kind |-> "Ir", sources |-> IrSource_parse(raw)]
  ELSE IF t = "EVENT_BALANCE_BOARD"
  THEN [kind |-> "BalanceBoard", weights |-> <<a[1].x, a[2].x, a[3].x, a[4].x>>]
  ELSE IF t = "EVENT_MOTION_PLUS"
  THEN [kind |-> "MotionPlus", x |-> a[1].x, y |-> a[1].y, z |-> a[1].z]
  ELSE IF t = "EVENT_PRO_CONTROLLER_MOVE"
  THEN [kind |-> "ProControllerMove", left_x |-> a[1].x, left_y |-> a[1].y,
        right_x |-> a[2].x, right_y |-> a[2].y]
  ELSE IF t = "EVENT_WATCH"
  THEN [kind |-> "Other"]
  ELSE IF t = "EVENT_CLASSIC_CONTROLLER_MOVE"
  THEN [kind |-> "ClassicControllerMove", left_x |-> a[1].x, left_y |-> a[1].y,
        right_x |-> a[2].x, right_y |-> a[2].y,
        left_trigger |-> AsU8(a[3].x), right_trigger |-> AsU8(a[3].y)]
  ELSE IF t = "EVENT_NUNCHUK_MOVE"
  THEN [kind |-> "NunchukMove", x |-> a[1].x, y |-> a[1].y,
        x_acceleration |-> a[2].x, y_acceleration |-> a[2].y]
  ELSE Event_parse_other(raw)

\* records
Pos(x, y, z) == [x |-> x, y |-> y, z |-> z]
ZeroAbs == [ix \in 1..MAX_IR_SOURCES |-> Pos(0, 0, 0)]
KeyRecord(t, c, st) == [type_ |-> t, code |-> c, state |-> st, abs |-> ZeroAbs]
AbsRecord(t, a) == [type_ |-> t, code |-> 0, state |-> 0, abs |-> a]
GoneRecord == AbsRecord("EVENT_GONE", ZeroAbs)

\* ------------------------------------------------ the device (kernel side)

\* The records the device sends in a run: a button of the remote, an
\* accelerometer sample, a button record whose code the remote's enumeration
\* does not know, and the removal record.
DeviceRecords ==
  {KeyRecord("EVENT_KEY", 8, 1),
   AbsRecord("EVENT_ACCEL", [ZeroAbs EXCEPT ![1] = Pos(1, 2, 3)]),
   KeyRecord("EVENT_KEY", 19, 0),
   GoneRecord}

\* A record arrives for the device: it is buffered, and the descriptor
\* signals readiness.
Arrive(rec) ==
  /\ nArr < MaxRecords
  /\ nArr' = nArr + 1
  /\ buf' = Append(buf, rec)
  /\ arrived' = Append(arrived, rec)
  /\ rdy' = EdgeOn(DevFd)
  /\ UNCHANGED <<interest, events, wakers, loopPc, term, wakerVars, clientVars, lockVars, onceVars,
                 devFail, chanVars, esVars, srcVars, monVars>>

\* The device node starts failing (EPOLLHUP/EPOLLERR on its descriptor).
DevFail ==
  /\ ~devFail
  /\ devFail' = TRUE
  /\ rdy' = EdgeOn(DevFd)
  /\ UNCHANGED <<interest, events, wakers, loopPc, term, wakerVars, clientVars, lockVars, onceVars,
                 buf, nArr, arrived, chanVars, esVars, srcVars, monVars>>

\* The status code of iface_dispatch(handle, &mut last_event, size).
iface_dispatch_res ==
  IF devFail THEN "EIO"
  ELSE IF buf = <<>> THEN "EAGAIN"
  ELSE "OK"

\* ------------------------------------------------------------ EventStream

\* EventStream::try_new(device), called from Device::events().  A stream
\* that has lost its interest can do nothing to the reactor any more: the
\* new stream takes its place in the model.
\* last_event: Default::default(), the zeroed record
DefaultEvent == KeyRecord("EVENT_KEY", 0, 0)

\* Mutant: the result of add_interest is ignored and the stream is built.
EsTryNew_IgnoreError ==
  /\ devAlive
  /\ esPc \in {"none", "ready", "suspended", "dropped", "dropped_twice"}
  /\ add_interest(DevFd)
  /\ lastNew' = ctl_interest_res("ADD", DevFd)
  /\ esPc' = "ready"
  /\ have_interest' = TRUE
  /\ esOut' = "none"
  /\ gone' = FALSE
  /\ rmCalls' = 0
  /\ endPolled' = FALSE
  /\ last_event' = DefaultEvent
  /\ parsed' = NotParsed
  /\ esStart' = Len(arrived) - Len(buf)
  /\ esYield' = <<>>
  /\ UNCHANGED <<events, wakers, loopPc, term, wakerVars, clientVars, lockVars, onceVars,
                 devVars, nDispatch, srcVars, monVars>>

EsTryNew ==
  /\ devAlive
  /\ esPc \in {"none", "ready", "suspended", "dropped", "dropped_twice"}
  /\ add_interest(DevFd)
  /\ lastNew' = ctl_interest_res("ADD", DevFd)
  /\ IF ctl_interest_res("ADD", DevFd) = "OK"
     THEN /\ esPc' = "ready"
          /\ have_interest' = TRUE
          /\ esOut' = "none"
          /\ gone' = FALSE
          /\ rmCalls' = 0
          /\ endPolled' = FALSE
          /\ last_event' = DefaultEvent
          /\ parsed' = NotParsed
          /\ esStart' = Len(arrived) - Len(buf)
          /\ esYield' = <<>>
     ELSE UNCHANGED <<esPc, have_interest, esOut, gone, rmCalls, endPolled,
                      last_event, parsed, esStart, esYield>>
  /\ UNCHANGED <<events, wakers, loopPc, term, wakerVars, clientVars, lockVars, onceVars,
                 devVars, nDispatch, srcVars, monVars>>

\* Mutant: the flag is never cleared.
es_remove_interest_KeepFlag(midPc, donePc, errPc) ==
  IF have_interest
  THEN /\ have_interest' = TRUE
       /\ rmCalls' = rmCalls + 1
       /\ ctl_interest("DEL", DevFd)
       /\ esPc' = IF ctl_interest_res("DEL", DevFd) = "OK" THEN midPc ELSE errPc
  ELSE /\ esPc' = donePc
       /\ UNCHANGED <<have_interest, rmCalls, interest, rdy>>

\* EventStream::remove_interest up to the reactor's epoll_ctl(DEL): it goes
\* on to midPc inside IoBlocker::remove_interest, returns Ok at donePc when
\* there is no interest, and its error leads to errPc.
es_remove_interest(midPc, donePc, errPc) ==
  IF have_interest
  THEN /\ have_interest' = FALSE
       /\ rmCalls' = rmCalls + 1
       /\ ctl_interest("DEL", DevFd)
       /\ esPc' = IF ctl_interest_res("DEL", DevFd) = "OK" THEN midPc ELSE errPc
  ELSE /\ esPc' = donePc
       /\ UNCHANGED <<have_interest, rmCalls, interest, rdy>>

\* Mutant: poll_next never takes the early return.
es_terminated_Never == FALSE

\* `if !self.have_interest { return Poll::Ready(None) }`
es_terminated == ~have_interest

\* Mutant: a failed dispatch is handled like would-block.
es_failure_pc_Suspend == "setcb"

\* `_ => Some(Err(io::Error::last_os_error()))`: poll_next returns
es_failure_pc == "ready"

\* Mutant: no record is taken for the removal record.
es_removal_Never(r) == FALSE

\* `if self.last_event.type_ == xwiimote_sys::EVENT_GONE`
es_removal(r) == r.type_ = "EVENT_GONE"

\* EventStream::poll_next up to its first return, or up to the reactor call
\* it makes (set_callback after EAGAIN, the map removal after a removal
\* record).
es_poll_next ==
  /\ notified' = notified \ {"es"}
  /\ IF es_terminated
     THEN /\ esOut' = "end"
          /\ esPc' = "ready"
          /\ endPolled' = TRUE
          /\ UNCHANGED <<interest, rdy, buf, have_interest, gone, rmCalls, nDispatch,
                         last_event, parsed, esYield>>
     ELSE /\ nDispatch < MaxDispatch
          /\ nDispatch' = nDispatch + 1
          /\ UNCHANGED endPolled
          /\ IF iface_dispatch_res = "EAGAIN"
             THEN /\ esPc' = "setcb"
                  /\ UNCHANGED <<interest, rdy, buf, have_interest, gone, rmCalls, esOut,
                                 last_event, parsed, esYield>>
             ELSE IF iface_dispatch_res # "OK"
             THEN /\ esOut' = "err"
                  /\ esPc' = es_failure_pc
                  /\ UNCHANGED <<interest, rdy, buf, have_interest, gone, rmCalls,
                                 last_event, parsed, esYield>>
             ELSE /\ buf' = Tail(buf)
                  /\ last_event' = Head(buf)
                  /\ IF es_removal(Head(buf))
                     THEN /\ gone' = TRUE
                          /\ es_remove_interest("rm_poll", "ready", "ready")
                          /\ esOut' = IF ~have_interest THEN "end"
                                      ELSE IF ctl_interest_res("DEL", DevFd) = "OK" THEN esOut
                                      ELSE "err"
                          /\ UNCHANGED <<parsed, esYield>>
                     ELSE /\ parsed' = Event_parse(Head(buf))
                          /\ IF Event_parse(Head(buf)).kind = "panic"
                             THEN /\ esOut' = "panic"
                                  /\ esPc' = "aborted"
                                  /\ UNCHANGED esYield
                             ELSE /\ esOut' = "item"
                                  /\ esPc' = "ready"
                                  /\ esYield' = Append(esYield, Event_parse(Head(buf)))
                          /\ UNCHANGED <<interest, rdy, have_interest, gone, rmCalls>>
  /\ UNCHANGED <<events, wakers, loopPc, term, nextW, woke, owner, clientVars, lockVars, onceVars,
                 nArr, devFail, arrived, chanVars, lastNew, esStart, srcVars, monVars>>

\* The executor polls the stream: at first, after an item, or after its
\* waker was invoked.
EsPoll ==
  /\ esPc = "ready" \/ (esPc = "suspended" /\ "es" \in notified)
  /\ es_poll_next

\* poll_next is a public method: a combinator may poll the stream although
\* its waker was not invoked.
EsPollSpurious ==
  /\ esPc = "suspended" /\ "es" \notin notified
  /\ es_poll_next

\* The EAGAIN arm: IoBlocker::get().set_callback(fd, cx.waker().clone());
\* return Poll::Pending
EsSetCallback ==
  /\ esPc = "setcb"
  /\ set_callback(DevFd, "es")
  /\ esOut' = "pending"
  /\ esPc' = "suspended"
  /\ UNCHANGED <<interest, rdy, events, loopPc, term, woke, notified, clientVars, lockVars, onceVars,
                 devVars, have_interest, lastNew, gone, rmCalls, nDispatch, endPolled,
                 last_event, parsed, esStart, esYield, srcVars, monVars>>

\* The rest of IoBlocker::remove_interest for the stream: the waker is taken
\* and woken; poll_next then yields end-of-stream, drop returns.
EsRemoveFinish ==
  /\ esPc \in {"rm_poll", "rm_drop"}
  /\ TakeAndWake({DevFd})
  /\ IF esPc = "rm_poll"
     THEN esOut' = "end" /\ esPc' = "ready"
     ELSE esPc' = "dropped" /\ UNCHANGED esOut
  /\ UNCHANGED <<interest, rdy, events, loopPc, term, nextW, owner, clientVars, lockVars, onceVars,
                 devVars, have_interest, lastNew, gone, rmCalls, nDispatch, endPolled,
                 last_event, parsed, esStart, esYield, srcVars, monVars>>

\* Drop for EventStream: self.remove_interest().expect(..).  Running it on a
\* dropped stream is the simulated second drop; after a panic in poll_next
\* the unwinding thread drops the stream.
EsDrop ==
  /\ esPc \in {"ready", "suspended", "dropped", "aborted"}
  /\ es_remove_interest("rm_drop",
                        IF esPc = "dropped" THEN "dropped_twice" ELSE "dropped",
                        "panicked")
  /\ UNCHANGED <<events, wakers, loopPc, term, wakerVars, clientVars, lockVars, onceVars,
                 devVars, esOut, lastNew, gone, nDispatch, endPolled,
                 last_event, parsed, esStart, esYield, srcVars, monVars>>

EsNext ==
  \/ EsTryNew \/ EsPoll \/ EsPollSpurious \/ EsSetCallback \/ EsRemoveFinish \/ EsDrop
  \/ \E rec \in DeviceRecords : Arrive(rec)
  \/ DevFail

\* ------------------------------------------- the discovery source (udev)

Enumerations == {<<>>, <<"A">>, <<"A", "B">>}
HotAddresses == {"C", "A"}

\* A device is plugged in while a watching monitor exists: its address is
\* queued on the monitor descriptor, which signals readiness.
HotPlug(a) ==
  /\ monPc \notin {"none", "dropped", "panicked"}
  /\ discover
  /\ Len(posted) < MaxHot
  /\ hot' = Append(hot, a)
  /\ posted' = Append(posted, a)
  /\ rdy' = EdgeOn(MonFd)
  /\ UNCHANGED <<interest, events, wakers, loopPc, term, wakerVars, clientVars, lockVars, onceVars,
                 devVars, esVars, src0, src, nullDone, monVars>>

\* What monitor_poll(handle) returns: the next connected device, null once
\* when they are exhausted, and from then on the next queued hot-plug
\* address or null.
monitor_poll_res ==
  IF src # <<>> THEN Head(src)
  ELSE IF ~nullDone THEN "null"
  ELSE IF discover /\ hot # <<>> THEN Head(hot)
  ELSE "null"

\* What monitor_poll(handle) does to the source.
monitor_poll ==
  /\ nMonPoll' = nMonPoll + 1
  /\ IF src # <<>>
     THEN src' = Tail(src) /\ UNCHANGED <<nullDone, hot>>
     ELSE IF ~nullDone
     THEN nullDone' = TRUE /\ UNCHANGED <<src, hot>>
     ELSE IF discover /\ hot # <<>>
     THEN hot' = Tail(hot) /\ UNCHANGED <<src, nullDone>>
     ELSE UNCHANGED <<src, nullDone, hot>>

\* ---------------------------------------------------------------- Monitor

\* Monitor::new(discover)
MonNew(d) ==
  /\ monPc = "none"
  /\ monPc' = "ready"
  /\ discover' = d
  /\ mon_fd' = IF d THEN "Some" ELSE "None"
  /\ enumerated' = FALSE
  /\ UNCHANGED <<reactorVars, wakerVars, clientVars, lockVars, onceVars, devVars, esVars, srcVars,
                 monOut, monYield, monRm, monReg, monAdds, nMonPoll,
                 monEndAgain>>

\* Poll::Ready(Some(Ok(address)))
mon_yield(a) ==
  /\ monOut' = a
  /\ monYield' = Append(monYield, a)
  /\ monPc' = "ready"

\* Mutant: the first null ends the stream whether or not discovery was asked
\* for.
mon_watching_Never == FALSE

\* Mutant: every monitor watches, whatever flag it was created with.
mon_watching_Always == TRUE

\* Mutant: after registering, the call stores the callback and suspends
\* without polling the source again.
mon_registered_pc_Suspend == "setcb"

\* `self.poll_next(cx)` after add_interest: the call goes on to poll again.
mon_registered_pc == "repoll"

\* `if let Some(fd) = self.fd` in poll_next
mon_watching == mon_fd = "Some"

\* Stream::poll_next for Monitor up to its first return, or up to the
\* reactor call it makes next (set_callback), or up to its call of itself.
mon_poll_next ==
  /\ IF enumerated
     THEN IF ~mon_watching
          THEN /\ monOut' = "end"
               /\ monPc' = "ready"
               /\ monEndAgain' = TRUE
               /\ UNCHANGED <<interest, rdy, src, nullDone, hot, nMonPoll,
                              enumerated, monYield, monReg, monAdds>>
          ELSE /\ monitor_poll
               /\ IF monitor_poll_res = "null"
                  THEN monPc' = "setcb" /\ UNCHANGED <<monOut, monYield>>
                  ELSE mon_yield(monitor_poll_res)
               /\ UNCHANGED <<interest, rdy, enumerated, monReg, monAdds, monEndAgain>>
     ELSE /\ monitor_poll
          /\ UNCHANGED monEndAgain
          /\ IF monitor_poll_res # "null"
             THEN /\ mon_yield(monitor_poll_res)
                  /\ UNCHANGED <<interest, rdy, enumerated, monReg, monAdds>>
             ELSE /\ enumerated' = TRUE
                  /\ UNCHANGED monYield
                  /\ IF mon_watching
                     THEN /\ add_interest(MonFd)
                          /\ monAdds' = monAdds + 1
                          /\ IF ctl_interest_res("ADD", MonFd) = "OK"
                             THEN monPc' = mon_registered_pc /\ monReg' = TRUE /\ UNCHANGED monOut
                             ELSE monPc' = "ready" /\ monOut' = "err" /\ UNCHANGED monReg
                     ELSE /\ monOut' = "end"
                          /\ monPc' = "ready"
                          /\ UNCHANGED <<interest, rdy, monReg, monAdds>>
  /\ notified' = notified \ {"mon"}
  /\ UNCHANGED <<events, wakers, loopPc, term, nextW, woke, owner, clientVars, lockVars, onceVars,
                 devVars, esVars, src0, posted, discover, mon_fd, monRm>>

\* The executor polls the stream: at first, after an item, or after its
\* waker was invoked.
MonPoll ==
  /\ monPc = "ready" \/ (monPc = "suspended" /\ "mon" \in notified)
  /\ mon_poll_next

\* A poll although the waker was not invoked.
MonPollSpurious ==
  /\ monPc = "suspended" /\ "mon" \notin notified
  /\ mon_poll_next

\* `self.poll_next(cx)` after add_interest: the same call polls again.
MonRepoll ==
  /\ monPc = "repoll"
  /\ mon_poll_next

\* IoBlocker::get().set_callback(fd, cx.waker().clone()); return Poll::Pending
MonSetCallback ==
  /\ monPc = "setcb"
  /\ set_callback(MonFd, "mon")
  /\ monOut' = "pending"
  /\ monPc' = "suspended"
  /\ UNCHANGED <<interest, rdy, events, loopPc, term, woke, notified, clientVars, lockVars, onceVars,
                 devVars, esVars, srcVars, discover, mon_fd, enumerated, monYield,
                 monRm, monReg, monAdds, nMonPoll,
                 monEndAgain>>

\* Drop for Monitor up to the reactor's epoll_ctl(DEL):
\* `if let Some(fd) = self.fd { remove_interest(fd, _).expect(..) }`
MonDrop ==
  /\ monPc \in {"ready", "suspended"}
  /\ IF mon_fd = "Some"
     THEN /\ monRm' = monRm + 1
          /\ ctl_interest("DEL", MonFd)
          /\ monPc' = IF ctl_interest_res("DEL", MonFd) = "OK" THEN "rm_drop" ELSE "panicked"
     ELSE /\ monPc' = "dropped"
          /\ UNCHANGED <<monRm, interest, rdy>>
  /\ UNCHANGED <<events, wakers, loopPc, term, wakerVars, clientVars, lockVars, onceVars,
                 devVars, esVars, srcVars, discover, mon_fd, enumerated, monOut,
                 monYield, monReg, monAdds, nMonPoll, monEndAgain>>

\* The rest of IoBlocker::remove_interest, then monitor_unref.
MonRemoveFinish ==
  /\ monPc = "rm_drop"
  /\ TakeAndWake({MonFd})
  /\ monPc' = "dropped"
  /\ UNCHANGED <<interest, rdy, events, loopPc, term, nextW, owner, clientVars, lockVars, onceVars,
                 devVars, esVars, srcVars, discover, mon_fd, enumerated, monOut,
                 monYield, monRm, monReg, monAdds, nMonPoll,
                 monEndAgain>>

MonNext ==
  \/ \E d \in BOOLEAN : MonNew(d)
  \/ MonPoll \/ MonPollSpurious \/ MonRepoll \/ MonSetCallback
  \/ MonDrop \/ MonRemoveFinish
  \/ \E a \in HotAddresses : HotPlug(a)

\* ------------------------------------------------- Device: the channels

\* three of the ten channels: the primary one and two others
Channels == {"CORE", "ACCELEROMETER", "NUNCHUK"}

\* What the handle's library does with a request to open the channels S:
\* channels already open are skipped, every other one is attempted, and the
\* first failure is reported after all were attempted.
iface_open_res(S) == IF (S \ opened) \cap unopenable # {} THEN "ERR" ELSE "OK"
iface_open_opened(S) == opened \cup (S \ unopenable)
iface_open_writable(S, writable) ==
  IF "CORE" \in S \ (opened \cup unopenable) THEN writable ELSE openedW

\* closing a closed channel does nothing
iface_close_opened(S) == opened \ S

\* the motor needs the primary channel open for writing
iface_rumble_res(o, w) == IF "CORE" \in o /\ w THEN "OK" ELSE "ERR"

\* Mutant: the library's status code is not looked at.
Device_open_res_Unchecked(S) == "OK"

\* Device::open: bail_if!(res_code != 0)
Device_open_res(S) == iface_open_res(S)

\* Mutant: the flag is set by every successful open of CORE.
Device_open_flag_AnyMode(S, writable) ==
  IF Device_open_res(S) = "OK" /\ "CORE" \in S THEN TRUE ELSE core_open

\* Device::open: the flag is set after a successful writable open of CORE
Device_open_flag(S, writable) ==
  IF Device_open_res(S) = "OK" /\ "CORE" \in S /\ writable THEN TRUE ELSE core_open

\* Mutant: closing is refused for channels that are not open.
Device_close_res_Strict(S) == IF S \subseteq opened THEN "OK" ELSE "ERR"

\* Device::close: the library's close reports nothing, close returns Ok(())
Device_close_res(S) == "OK"

\* Mutant: rumble opens the primary channel each time.
ensure_core_open_needed_Always == TRUE

\* Device::ensure_core_open: `if !self.core_open`
ensure_core_open_needed == ~core_open

\* Device::all_open
all_open == opened

\* a call on the Device is recorded with the call before it
Call(r) == r @@ [tick |-> 1 - chLast.tick,
                 repeat |-> chLast.op = r.op /\ chLast.arg = r.arg]

\* Device::open(channels, writable)
DevOpen(S, writable) ==
  /\ devAlive
  /\ opened' = iface_open_opened(S)
  /\ openedW' = iface_open_writable(S, writable)
  /\ core_open' = Device_open_flag(S, writable)
  /\ chLast' = Call([op |-> "open", arg |-> S, writable |-> writable,
                     res |-> Device_open_res(S)])
  /\ UNCHANGED <<reactorVars, wakerVars, clientVars, lockVars, onceVars, buf, nArr, devFail, arrived,
                 unopenable, motor, devAlive, released, esVars, srcVars, monVars>>

\* Device::close(channels)
DevClose(S) ==
  /\ devAlive
  /\ core_open' = IF "CORE" \in S THEN FALSE ELSE core_open
  /\ opened' = iface_close_opened(S)
  /\ openedW' = IF "CORE" \in S THEN FALSE ELSE openedW
  /\ chLast' = Call([op |-> "close", arg |-> S, res |-> Device_close_res(S)])
  /\ UNCHANGED <<reactorVars, wakerVars, clientVars, lockVars, onceVars, buf, nArr, devFail, arrived,
                 unopenable, motor, devAlive, released, esVars, srcVars, monVars>>

\* Device::rumble(enabled): ensure_core_open()?, then iface_rumble
DevRumble(enabled) ==
  LET opens == ensure_core_open_needed
      openRes == IF opens THEN Device_open_res({"CORE"}) ELSE "OK"
      o == IF opens THEN iface_open_opened({"CORE"}) ELSE opened
      w == IF opens THEN iface_open_writable({"CORE"}, TRUE) ELSE openedW
      res == IF openRes # "OK" THEN openRes ELSE iface_rumble_res(o, w)
  IN
  /\ devAlive
  /\ opened' = o
  /\ openedW' = w
  /\ core_open' = IF opens THEN Device_open_flag({"CORE"}, TRUE) ELSE core_open
  /\ motor' = IF res = "OK" THEN enabled ELSE motor
  /\ chLast' = Call([op |-> "rumble", arg |-> enabled, opens |-> opens,
                     openRes |-> openRes, actuates |-> openRes = "OK", res |-> res])
  /\ UNCHANGED <<reactorVars, wakerVars, clientVars, lockVars, onceVars, buf, nArr, devFail, arrived,
                 unopenable, devAlive, released, esVars, srcVars, monVars>>

\* The kernel closes a channel on its own (extension unplugged, error).
KernelClose(c) ==
  /\ c \in opened
  /\ opened' = opened \ {c}
  /\ openedW' = IF c = "CORE" THEN FALSE ELSE openedW
  /\ UNCHANGED <<reactorVars, wakerVars, clientVars, lockVars, onceVars, buf, nArr, devFail, arrived,
                 core_open, unopenable, motor, chLast, devAlive, released, esVars,
                 srcVars, monVars>>

\* Does dropping a Device run code that releases the handle?  The crate's
\* Device (lib.rs) has no Drop implementation; the unused draft device.rs
\* (296-301) has one that calls iface_unref.
Device_has_drop == FALSE

\* An EventStream<'a> holds `&'a Device`: while one exists the Device cannot
\* be dropped.  A panicking thread drops the stream, then the Device.
Device_borrowed == esPc \in {"ready", "setcb", "suspended", "rm_poll", "rm_drop", "aborted"}

\* The Device value goes out of scope.
DeviceDrop ==
  /\ devAlive
  /\ ~Device_borrowed
  /\ devAlive' = FALSE
  /\ released' = IF Device_has_drop THEN released + 1 ELSE released
  /\ UNCHANGED <<reactorVars, wakerVars, clientVars, lockVars, onceVars, buf, nArr, devFail, arrived,
                 opened, openedW, core_open, unopenable, motor, chLast, esVars,
                 srcVars, monVars>>

DeviceNext ==
  \/ \E S \in SUBSET Channels, writable \in BOOLEAN : DevOpen(S, writable)
  \/ \E S \in SUBSET Channels : DevClose(S)
  \/ \E enabled \in BOOLEAN : DevRumble(enabled)
  \/ \E c \in Channels : KernelClose(c)

\* ----------------------------------------------------------------- Init

\* IoBlocker::get has not been called
NotConstructed ==
  /\ lazy = "uninit"
  /\ getPc = [t \in Tasks |-> "out"]
  /\ got = [t \in Tasks |-> 0]
  /\ loopT = <<>>
  /\ nEp = 0

\* IoBlocker::get has returned the instance; its background thread runs
Constructed ==
  /\ lazy = "done"
  /\ getPc = [t \in Tasks |-> "out"]
  /\ got = [t \in Tasks |-> 0]
  /\ loopT = <<"run">>
  /\ nEp = 1

InitLoop ==
  /\ interest = {}
  /\ rdy = {}
  /\ events = {}
  /\ wakers = [f \in Fds |-> NoWaker]
  /\ loopPc = "check"
  /\ term = FALSE
  /\ nextW = 1
  /\ woke = [w \in WakerIds |-> 0]
  /\ owner = [w \in WakerIds |-> "raw"]
  /\ notified = {}
  /\ holder = "none"
  /\ mxPc = [t \in Threads |-> "out"]
  /\ inlineW = {}
  /\ poisoned = FALSE

InitReactor == InitLoop /\ Constructed

InitRaw ==
  /\ level \in SUBSET {TestFd}
  /\ clPc = "idle"
  /\ last = [op |-> "none", res |-> "OK"]
  /\ nCalls = 0
  /\ added = FALSE
  /\ pendAtCall = NoWaker
  /\ testPc = "start"
  /\ futFirst = TRUE
  /\ testPolls = 0

\* everything a stream, a device and a monitor start with, but last_event
\* and the channels that cannot be opened
InitStreamsBut ==
  /\ opened = {}
  /\ openedW = FALSE
  /\ core_open = FALSE
  /\ motor = FALSE
  /\ chLast = [op |-> "none", arg |-> {}, tick |-> 0, repeat |-> FALSE]
  /\ devAlive = TRUE
  /\ released = 0
  /\ buf = <<>>
  /\ nArr = 0
  /\ devFail = FALSE
  /\ arrived = <<>>
  /\ esPc = "none"
  /\ have_interest = FALSE
  /\ esOut = "none"
  /\ lastNew = "none"
  /\ gone = FALSE
  /\ rmCalls = 0
  /\ nDispatch = 0
  /\ endPolled = FALSE
  /\ parsed = NotParsed
  /\ esStart = 0
  /\ esYield = <<>>
  /\ src = src0
  /\ nullDone = FALSE
  /\ hot = <<>>
  /\ posted = <<>>
  /\ monPc = "none"
  /\ discover = FALSE
  /\ mon_fd = "None"
  /\ enumerated = FALSE
  /\ monOut = "none"
  /\ monYield = <<>>
  /\ monRm = 0
  /\ monReg = FALSE
  /\ monAdds = 0
  /\ nMonPoll = 0
  /\ monEndAgain = FALSE

InitStreams == InitStreamsBut /\ last_event = DefaultEvent /\ unopenable = {}

\* ------------------------------------------------- the reactor on its own

ReactorInit == InitReactor /\ InitRaw /\ src0 = <<>> /\ InitStreams
ReactorNext == LoopNext \/ Signal \/ RawNext \/ TestNext
SpecReactor == ReactorInit /\ [][ReactorNext]_vars

\* The background thread, a client inside remove_interest and the test's
\* executor are threads of their own: each keeps taking its steps.
FairReactor ==
  /\ SpecReactor
  /\ WF_vars(LoopNext)
  /\ WF_vars(RawRemoveFinish)
  /\ WF_vars(TestNext)

LoopRuns == loopPc \notin {"exited", "failed"}

\* The threads of the reactor's clients and the background thread, lock by
\* lock.
SpecMutex == ReactorInit /\ [][MutexNext]_vars

\* Threads that call IoBlocker::get in a process that has not yet used it.
OnceInit ==
  InitLoop /\ NotConstructed /\ InitRaw /\ level = {} /\ src0 = <<>> /\ InitStreams
SpecOnce == OnceInit /\ [][OnceNext]_vars

\* ---------------------------------------------------------------- claims

\* C1: when add_interest(f, m) has succeeded and no remove_interest(f)
\* happened since, another add_interest(f, m') returns an error and leaves
\* the registration and the stored callback as they were.
C1_DoubleAddFails ==
  [][(added /\ nCalls' = nCalls + 1 /\ last'.op = "add")
       => (/\ last'.res # "OK"
           /\ interest' = interest
           /\ rdy' = rdy
           /\ wakers' = wakers)]_vars

C1_Witness ==
  /\ added
  /\ last = [op |-> "add", res |-> "EEXIST"]
  /\ wakers[RawFd] # NoWaker

\* C2: when remove_interest returns Ok for a registered descriptor that had
\* a callback stored at the call, that callback has been invoked exactly
\* once and the map holds no callback for the descriptor; and no callback is
\* ever invoked a second time (by the loop or a later remove_interest).
C2_RemoveWakesOnce ==
  /\ (clPc = "idle" /\ last = [op |-> "remove", res |-> "OK"] /\ pendAtCall # NoWaker)
       => (woke[pendAtCall] = 1 /\ wakers[RawFd] = NoWaker)
  /\ \A w \in WakerIds : woke[w] <= 1

C2_Witness ==
  /\ clPc = "idle"
  /\ last = [op |-> "remove", res |-> "OK"]
  /\ pendAtCall # NoWaker
  /\ woke[pendAtCall] = 1

\* C3: while the background loop keeps running and the descriptor stays
\* ready, a task that registered interest, stored a callback and suspended
\* is eventually woken: the test's future, parked after its first poll,
\* completes, and it does so on exactly its second poll.
C3_ReadyTaskWoken ==
  /\ ([]LoopRuns /\ [](TestFd \in level))
       => ((testPc = "parked") ~> (testPc = "done"))
  /\ [](testPc = "done" => testPolls = 2)

\* What the loop does guarantee: a callback that is stored while the
\* descriptor's readiness notification is still pending in epoll is
\* eventually invoked (unless its owner replaced it), and the test future
\* parked in that situation completes on its second poll.  A notification
\* that wake_ready reported before the callback was stored is dropped
\* (io_blocker.rs:72-76) and, being edge-triggered, is not reported again.
PendingEdgeCallbackWoken ==
  /\ []LoopRuns =>
       /\ \A w \in WakerIds :
            (wakers[RawFd] = w /\ RawFd \in rdy) ~> (woke[w] > 0 \/ wakers[RawFd] # w)
       /\ (testPc = "parked" /\ TestFd \in rdy) ~> (testPc = "done")
  /\ [](testPolls <= 2 /\ (testPc = "done" => testPolls = 2))

PendingEdgeCallbackWoken_Reached ==
  /\ testPc = "done"
  /\ testPolls = 2
  /\ \E w \in WakerIds : owner[w] = "test" /\ woke[w] = 1
  /\ LoopRuns

\* ------------------------------------ the streams on top of the reactor

\* An application that uses a device's event stream.
EventInit == InitReactor /\ InitRaw /\ level = {} /\ src0 = <<>> /\ InitStreams
EventNext == LoopNext \/ Signal \/ EsNext
SpecEvent == EventInit /\ [][EventNext]_vars

\* An application that opens a device's event stream and lets the Device go
\* out of scope once no stream borrows it.
LifetimeNext == EventNext \/ DeviceDrop
SpecLifetime == EventInit /\ [][LifetimeNext]_vars

\* An application that uses a monitor.
MonitorInit == InitReactor /\ InitRaw /\ level = {} /\ src0 \in Enumerations /\ InitStreams
MonitorNext == LoopNext \/ Signal \/ MonNext
SpecMonitor == MonitorInit /\ [][MonitorNext]_vars

\* An application that uses one of the two.
Init == MonitorInit
Next ==
  \/ LoopNext
  \/ Signal
  \/ (monPc = "none" /\ src0 = <<>> /\ EsNext)
  \/ (esPc = "none" /\ nArr = 0 /\ ~devFail /\ MonNext)
Spec == Init /\ [][Next]_vars

\* ------------------------------------------------------- claims, streams

\* C4: once the stream has dispatched a removal record, no later step makes
\* a dispatch call or stores a wake callback for the device descriptor, and
\* whatever poll_next returns from then on is end-of-stream.
C4_TerminatedStaysEnded ==
  [][(gone /\ gone')
       => (/\ nDispatch' = nDispatch
           /\ (wakers'[DevFd] # wakers[DevFd] => wakers'[DevFd] = NoWaker)
           /\ esPc' \notin {"setcb", "suspended"}
           /\ (esOut' # esOut => esOut' = "end"))]_vars

C4_Witness ==
  /\ gone
  /\ endPolled
  /\ esOut = "end"
  /\ buf # <<>>
  /\ nDispatch < MaxDispatch

\* C5: over the lifetime of one stream, polls, drop and a second drop
\* included, the reactor's remove_interest is called at most once; after a
\* removal record deregistered the interest, drop calls nothing and does
\* not fail.
C5_DeregisteredAtMostOnce ==
  /\ rmCalls <= 1
  /\ (gone => esPc # "panicked")
  /\ (esPc \in {"dropped", "dropped_twice", "rm_drop"} => rmCalls = 1)

C5_Witness ==
  /\ gone
  /\ esPc = "dropped_twice"
  /\ rmCalls = 1

\* C6: when the drop of a stream that had not ended (EventStream), or of a
\* monitor that had entered watching, has returned, its descriptor is not
\* registered with the reactor and the map holds no callback for it.
C6_DropDeregisters ==
  /\ (esPc \in {"dropped", "dropped_twice"} /\ ~gone)
       => (DevFd \notin interest /\ wakers[DevFd] = NoWaker)
  /\ (monPc = "dropped" /\ monReg)
       => (MonFd \notin interest /\ wakers[MonFd] = NoWaker)

C6_Witness ==
  /\ esPc = "dropped"
  /\ ~gone
  /\ esOut = "pending"
  /\ \E w \in WakerIds : owner[w] = "es" /\ woke[w] = 1
  /\ ~EpClosed

\* The monitor's case of C6.
C6_WitnessMonitor ==
  /\ monPc = "dropped"
  /\ monReg
  /\ monOut = "pending"
  /\ \E w \in WakerIds : owner[w] = "mon" /\ woke[w] = 1
  /\ ~EpClosed

\* C7: a monitor's destruction calls the reactor's remove_interest exactly
\* when its interest had been registered, and a monitor destroyed while
\* still enumerating is destroyed without failure.
C7_DropDeregistersIffRegistered ==
  /\ (monPc \in {"rm_drop", "dropped", "panicked"} => ((monRm = 1) <=> monReg))
  /\ ((monPc = "panicked") => enumerated)

\* IsPrefix(s, t): s is an initial part of t
IsPrefix(s, t) == Len(s) <= Len(t) /\ s = SubSeq(t, 1, Len(s))

\* C8: a monitor created without watching yields the connected devices in
\* order and then end-of-stream; it never registers with the reactor, never
\* stores a callback or suspends, and once the stream has ended no poll_next
\* polls the source again.
C8_EnumerateOnly ==
  (monPc # "none" /\ ~discover)
    => /\ MonFd \notin interest
       /\ ~monReg
       /\ wakers[MonFd] = NoWaker
       /\ monPc \notin {"repoll", "setcb", "suspended"}
       /\ monOut \notin {"pending", "err"}
       /\ IsPrefix(monYield, src0)
       /\ nMonPoll <= Len(src0) + 1
       /\ (monOut = "end" <=> nMonPoll = Len(src0) + 1)
       /\ (monOut = "end" => monYield = src0)
       /\ (monOut # "end" => nMonPoll = Len(monYield))

C8_Witness ==
  /\ ~discover
  /\ src0 = <<"A", "B">>
  /\ monYield = <<"A", "B">>
  /\ monOut = "end"
  /\ monEndAgain
  /\ nMonPoll = 3

\* C9: a watching monitor yields the connected devices and then the
\* hot-plugged addresses, in order and without loss.  The call that reads the
\* null ending the enumeration registers interest and polls the source again
\* before it returns: it yields the address queued at that moment, or else
\* stores a callback and suspends.  A poll of the suspended stream made while
\* an address is queued yields that address.  (The registration is the one
\* the claim speaks of: the steps after a failed add_interest are not its
\* subject.)
C9_WatchYieldsHotplug ==
  /\ [](discover => monYield \o src \o hot = src0 \o posted)
  /\ []((monReg /\ monOut = "pending") => nMonPoll >= Len(src0) + 2)
  /\ [][(discover /\ ~enumerated /\ enumerated' /\ ~EpClosed)
          => (MonFd \in interest' /\ monReg' /\ monPc' = "repoll")]_vars
  /\ [][(monPc = "repoll" /\ monPc' # "repoll")
          => IF hot # <<>>
             THEN monOut' = Head(hot) /\ monPc' = "ready" /\ hot' = Tail(hot)
             ELSE monPc' = "setcb"]_vars
  /\ [][(monPc = "setcb" /\ monPc' # "setcb")
          => (monPc' = "suspended" /\ monOut' = "pending" /\ wakers'[MonFd] # NoWaker)]_vars
  /\ [][(monPc = "suspended" /\ hot # <<>> /\ nMonPoll' = nMonPoll + 1)
          => (monOut' = Head(hot) /\ monPc' = "ready")]_vars

C9_Witness ==
  /\ discover
  /\ src0 = <<"A", "B">>
  /\ monYield = <<"A", "B", "C">>
  /\ monOut = "C"
  /\ \E w \in WakerIds : owner[w] = "mon" /\ woke[w] = 1
  /\ "mon" \notin notified

\* C10: the monitor yields end-of-stream only when discovery is disabled and
\* every connected device has been yielded; a watching monitor never does.
C10_EndOnlyWithoutDiscover ==
  monOut = "end" => (~discover /\ src = <<>> /\ monYield = src0)

C10_Witness ==
  /\ monOut = "end"
  /\ ~discover
  /\ monYield = src0
  /\ Len(src0) = 2

\* A watching monitor past its enumeration, with nothing to yield: it is
\* suspended, not ended.
C10_WitnessWatching ==
  /\ discover
  /\ enumerated
  /\ monOut = "pending"
  /\ hot = <<>>

\* ------------------------------------------------- the stream's records

\* the records this stream has taken from the device, oldest first
Taken == SubSeq(arrived, esStart + 1, Len(arrived) - Len(buf))

NonRemoval(q) == SelectSeq(q, LAMBDA r : r.type_ # "EVENT_GONE")

Decoded(q) == [i \in 1..Len(q) |-> Event_parse(q[i])]

\* C11: the events a stream has yielded are exactly the decoded non-removal
\* records it has taken from the device, in the order the kernel buffered
\* them, none skipped, duplicated or reordered; and a removal record is the
\* last record a stream takes.
C11_YieldsBufferedOrder ==
  esPc # "none" =>
    /\ esYield = Decoded(NonRemoval(Taken))
    /\ \A i \in 1..Len(Taken) : Taken[i].type_ = "EVENT_GONE" => i = Len(Taken)

\* What holds of the order: every record a stream has taken was yielded, in
\* arrival order, except a record on which Event::parse panicked, which is
\* the last one taken.
YieldsBufferedOrderUntilPanic ==
  esPc # "none" =>
    LET ok == IF esOut = "panic" /\ Len(Taken) > 0
              THEN SubSeq(Taken, 1, Len(Taken) - 1) ELSE Taken
    IN /\ esYield = Decoded(NonRemoval(ok))
       /\ \A i \in 1..Len(Taken) : Taken[i].type_ = "EVENT_GONE" => i = Len(Taken)

\* A poll that yields an event made exactly one dispatch and took exactly
\* the oldest buffered record.
OneDispatchPerYield ==
  [][esYield' # esYield /\ esStart' = esStart =>
       /\ nDispatch' = nDispatch + 1
       /\ buf # <<>> /\ buf' = Tail(buf)
       /\ esYield' = Append(esYield, Event_parse(Head(buf)))]_vars

YieldsBufferedOrder_Reached ==
  /\ Len(esYield) = 2
  /\ esYield[1] # esYield[2]

\* a key record whose code its tag's enumeration does not have, or whose
\* state is not a KeyState
UnknownKey(r) ==
  /\ r.type_ \in KeyTags
  /\ r.code \notin DOMAIN KeyEnumOf[r.type_] \/ r.state \notin DOMAIN KeyState

\* C12: when the record of the stream's last dispatch is a key record with
\* an unknown code or state, the poll that dispatched it yielded an error
\* item: it did not yield an event, and the thread did not panic.
C12_UnknownKeyYieldsError ==
  (esPc # "none" /\ UnknownKey(last_event)) =>
     (esOut \notin {"item", "panic"} /\ esPc # "aborted")

\* C13: a poll whose dispatch fails (neither success nor would-block) makes
\* that one dispatch only, returns an error item without going on to
\* set_callback, and leaves the callback map, the registration and
\* have_interest as they were; dropping the stream afterwards calls the
\* reactor's remove_interest exactly once.
C13_DispatchFailureSurfaced ==
  /\ [][(nDispatch' # nDispatch /\ iface_dispatch_res \notin {"OK", "EAGAIN"}) =>
          /\ nDispatch' = nDispatch + 1
          /\ esOut' = "err"
          /\ esPc' = "ready"
          /\ wakers' = wakers /\ nextW' = nextW
          /\ interest' = interest
          /\ have_interest /\ have_interest']_vars
  /\ [](esOut = "err" /\ ~gone =>
          /\ esPc = "ready" => (have_interest /\ rmCalls = 0)
          /\ esPc \in {"rm_drop", "dropped", "dropped_twice", "panicked"} => rmCalls = 1
          /\ esPc \in {"dropped", "dropped_twice"} => DevFd \notin interest)

C13_Witness ==
  /\ esPc = "dropped"
  /\ esOut = "err"
  /\ devFail
  /\ ~gone
  /\ rmCalls = 1
  /\ DevFd \notin interest
  /\ wakers[DevFd] = NoWaker

\* C14: dropping an EventStream never fails: the expect in drop never
\* raises 'failed to remove interest for device fd'.
C14_DropNeverFails == esPc # "panicked"

\* ------------------------------------------------- the decoder on its own

\* key codes and key states tried (the enumerations end at 27 and 2)
MaxKeyCode == 28
MaxKeyState == 3

\* coordinates tried in the slots of an IR record, and in the other records
IrCoords == {100, 200, MISSING_SOURCE}
AxisValues == {-1, 300}

AbsTags == EventTags \ (KeyTags \cup {"EVENT_IR", "EVENT_GONE"})

\* the records a dispatch can leave in last_event on the way to Event::parse
\* (the removal record does not get there, event.rs:510)
DecodeInputs ==
  {KeyRecord(t, c, st) : t \in KeyTags, c \in 0..MaxKeyCode, st \in 0..MaxKeyState}
  \cup {AbsRecord("EVENT_IR", a) :
          a \in [1..MAX_IR_SOURCES -> {Pos(x, y, 0) : x \in IrCoords, y \in IrCoords}]}
  \cup {AbsRecord(t, a) :
          t \in AbsTags,
          a \in [1..MAX_IR_SOURCES -> {Pos(x, y, 5) : x \in AxisValues, y \in {300}}]}

\* `let event = unsafe { Event::parse(&self.last_event) }`
ParseLast ==
  /\ parsed = NotParsed
  /\ parsed' = Event_parse(last_event)
  /\ UNCHANGED <<reactorVars, wakerVars, clientVars, lockVars, onceVars, devVars, srcVars, monVars,
                 esPc, have_interest, esOut, lastNew, gone, rmCalls, nDispatch, endPolled,
                 last_event, esStart, esYield>>

DecodeInit ==
  InitReactor /\ InitRaw /\ level = {} /\ src0 = <<>> /\ InitStreamsBut
    /\ last_event \in DecodeInputs /\ unopenable = {}
SpecDecode == DecodeInit /\ [][ParseLast]_vars

\* C15: an IR record decodes, slot by slot, to an absent marker when the
\* slot's x or y is the sentinel 1023 and otherwise to a source with exactly
\* that slot's (x, y); slot 1 = (100, 200), slot 2 = (1023, 1023) decodes to
\* slot 1 present at (100, 200) and slot 2 absent.
C15_IrSlotsDecoded ==
  (parsed # NotParsed /\ last_event.type_ = "EVENT_IR") =>
    /\ parsed.kind = "Ir"
    /\ DOMAIN parsed.sources = 1..4
    /\ \A i \in 1..4 :
         LET p == last_event.abs[i] IN
         IF p.x = 1023 \/ p.y = 1023
         THEN parsed.sources[i] = [present |-> FALSE]
         ELSE parsed.sources[i] = [present |-> TRUE, x |-> p.x, y |-> p.y]
    /\ (last_event.abs[1] = Pos(100, 200, 0) /\ last_event.abs[2] = Pos(1023, 1023, 0)) =>
         /\ parsed.sources[1] = [present |-> TRUE, x |-> 100, y |-> 200]
         /\ parsed.sources[2] = [present |-> FALSE]

C15_Witness ==
  /\ parsed # NotParsed
  /\ last_event.type_ = "EVENT_IR"
  /\ last_event.abs[1] = Pos(100, 200, 0)
  /\ last_event.abs[2] = Pos(1023, 1023, 0)
  /\ last_event.abs[3] = Pos(1023, 200, 0)
  /\ last_event.abs[4] = Pos(200, 1023, 0)
  /\ parsed.sources[1].present
  /\ ~parsed.sources[3].present

\* a record the device library can dispatch, with field values in range
WellFormed(r) ==
  /\ r.type_ \in EventTags \ {"EVENT_GONE"}
  /\ r.type_ \in KeyTags =>
       (r.code \in DOMAIN KeyEnumOf[r.type_] /\ r.state \in DOMAIN KeyState)

\* C16: decoding a well-formed record of any tag but the removal tag
\* produces a typed Event: Event::parse does not fail on it.
C16_DecoderTotal ==
  (parsed # NotParsed /\ WellFormed(last_event)) => parsed.kind # "panic"

\* C17: a key record decodes to a key of the enumeration of its tag's
\* channel or fails to decode, never to a key of another enumeration: code 8
\* is Home under the primary key tag and StarPower under the guitar key tag,
\* 9 and 10 fail under the nunchuk tag, 19 and 20 fail under the primary tag.
C17_TagSelectsEnumeration ==
  (parsed # NotParsed /\ last_event.type_ \in KeyTags) =>
    LET t == last_event.type_
        c == last_event.code
        okState == last_event.state \in 0..2
    IN
    /\ parsed.kind \in {KeyKindOf[t], "panic"}
    /\ parsed.kind # "panic" =>
         (c \in DOMAIN KeyEnumOf[t] /\ parsed.key = KeyEnumOf[t][c])
    /\ c \notin DOMAIN KeyEnumOf[t] => parsed.kind = "panic"
    /\ (t = "EVENT_KEY" /\ c = 8 /\ okState) => (parsed.kind = "Key" /\ parsed.key = "Home")
    /\ (t = "EVENT_GUITAR_KEY" /\ c = 8 /\ okState) =>
         (parsed.kind = "GuitarKey" /\ parsed.key = "StarPower")
    /\ (t = "EVENT_NUNCHUK_KEY" /\ c \in {9, 10}) => parsed.kind = "panic"
    /\ (t = "EVENT_KEY" /\ c \in {19, 20}) => parsed.kind = "panic"

C17_Witness ==
  /\ parsed # NotParsed
  /\ last_event.type_ = "EVENT_NUNCHUK_KEY"
  /\ last_event.code = 9
  /\ last_event.state = 1
  /\ parsed.kind = "panic"

C17_WitnessSameCode ==
  /\ parsed # NotParsed
  /\ last_event.type_ = "EVENT_GUITAR_KEY"
  /\ last_event.code = 8
  /\ parsed.kind = "GuitarKey"
  /\ parsed.key = "StarPower"

\* ---------------------------------------------- the channels on their own

DeviceInit ==
  InitReactor /\ InitRaw /\ level = {} /\ src0 = <<>> /\ InitStreamsBut
    /\ last_event = DefaultEvent /\ unopenable \in SUBSET Channels
SpecDevice == DeviceInit /\ [][DeviceNext]_vars

IsCall(op) == chLast'.tick # chLast.tick /\ chLast'.op = op

\* C18: open on a channel set with a channel that can be opened and a
\* channel that always fails returns an error, and right afterwards the
\* opened-channels query reports every channel of the set that can be
\* opened as open.
C18_PartialOpen ==
  [][(/\ IsCall("open")
      /\ \E v \in chLast'.arg : v \notin unopenable
      /\ \E f \in chLast'.arg : f \in unopenable)
       => (/\ chLast'.res = "ERR"
           /\ \A v \in chLast'.arg \ unopenable : v \in all_open')]_vars

C18_Witness ==
  /\ chLast.op = "open"
  /\ chLast.arg = {"ACCELEROMETER", "NUNCHUK"}
  /\ unopenable = {"NUNCHUK"}
  /\ chLast.res = "ERR"
  /\ all_open = {"ACCELEROMETER"}

\* C19: close never reports an error, whether or not the channels are open,
\* and a close(S) that directly follows a close(S) changes neither the open
\* set nor the primary-channel flag.
C19_CloseIdempotent ==
  [][IsCall("close") =>
       /\ chLast'.res = "OK"
       /\ opened' = opened \ chLast'.arg
       /\ chLast'.repeat => (opened' = opened /\ core_open' = core_open)]_vars

C19_Witness ==
  /\ chLast.op = "close"
  /\ chLast.repeat
  /\ chLast.arg = {"CORE", "NUNCHUK"}
  /\ chLast.res = "OK"
  /\ opened = {"ACCELEROMETER"}

\* C20: rumble opens the primary channel (writable) exactly when the flag
\* is false; when that open fails, rumble returns the error, the motor is
\* not actuated and the flag stays false; when the flag is true no open is
\* made and the flag stays true.
C20_RumbleAutoOpen ==
  [][IsCall("rumble") =>
       /\ chLast'.opens <=> ~core_open
       /\ (chLast'.opens /\ chLast'.openRes # "OK") =>
            /\ chLast'.res = chLast'.openRes
            /\ ~chLast'.actuates
            /\ motor' = motor
            /\ core_open' = FALSE
            /\ opened' = opened
       /\ (chLast'.opens /\ chLast'.openRes = "OK") =>
            (core_open' /\ "CORE" \in opened' /\ chLast'.actuates)
       /\ core_open => (core_open' /\ opened' = opened /\ chLast'.actuates)]_vars

C20_Witness ==
  /\ chLast.op = "rumble"
  /\ chLast.opens
  /\ chLast.openRes = "ERR"
  /\ chLast.res = "ERR"
  /\ ~core_open
  /\ ~motor

C20_WitnessOpened ==
  /\ chLast.op = "rumble"
  /\ chLast.opens
  /\ chLast.res = "OK"
  /\ core_open
  /\ motor

\* ------------------------------- claims, lifetimes and the map's lock

\* C21: once the Device value is gone its handle has been released exactly
\* once; before that it has not been released; and while an EventStream
\* borrowed from the Device exists the Device is there and unreleased.
C21_HandleReleasedOnce ==
  /\ ~devAlive => released = 1
  /\ devAlive => released = 0
  /\ Device_borrowed => (devAlive /\ released = 0)

\* What holds of the crate's Device: it is never dropped while a stream
\* borrows it, and nothing ever releases its handle.
DeviceNeverReleased ==
  /\ released = 0
  /\ Device_borrowed => devAlive

DeviceNeverReleased_Reached ==
  /\ ~devAlive
  /\ esPc = "dropped"
  /\ lastNew = "OK"

\* C22: at any moment at most one thread (the background loop, or a task in
\* set_callback or remove_interest) is reading or changing the map, and that
\* thread holds the guard; and no stored callback is taken out and invoked
\* by more than one of them.
C22_MapMutualExclusion ==
  /\ Cardinality(InMap) <= 1
  /\ \A t \in InMap : holder = t
  /\ \A w \in WakerIds : woke[w] <= 1

C22_Witness ==
  /\ holder = "raw"
  /\ mxPc["raw"] = "take"
  /\ wakers[RawFd] # NoWaker
  /\ \E w \in WakerIds : woke[w] = 1 /\ owner[w] = "test"

\* C26: a callback that the background loop invokes and that re-arms its
\* descriptor from inside the callback gets through set_callback: the loop
\* thread is never stuck in lock() on the mutex whose guard it holds.
C26_RearmInCallbackCompletes == mxPc["loop"] # "relock"

\* C23: when the loop's condition is evaluated with the termination flag set
\* the loop is left, the epoll descriptor is closed (every later epoll_ctl
\* fails with EBADF) and run returns Ok, a state it never leaves for the
\* failed one; the loop ends in no other way except by the failure of
\* epoll_wait.
C23_LoopExitsOnSignal ==
  [][/\ (loopPc = "check" /\ term /\ loopPc' # loopPc) => loopPc' = "exited"
     /\ (loopPc # "exited" /\ loopPc' = "exited")
          => (/\ loopPc = "check"
              /\ term
              /\ EpClosed'
              /\ interest' = {}
              /\ \A fd \in Fds : ctl_interest_res("ADD", fd)' = "EBADF")
     /\ (loopPc # "failed" /\ loopPc' = "failed") => loopPc = "wait"
     /\ loopPc \in {"exited", "failed"} => loopPc' = loopPc]_vars

C23_Witness ==
  /\ loopPc = "exited"
  /\ term
  /\ last = [op |-> "add", res |-> "EBADF"]
  /\ wakers[RawFd] # NoWaker

\* a callback that was stored and is no longer in the map without having
\* been invoked: a later set_callback for its descriptor replaced it
Replaced(w) == w < nextW /\ woke[w] = 0 /\ \A f \in Fds : wakers[f] # w

\* C24: set_callback(fd, w2) leaves w2 as the only callback of fd and invokes
\* nothing; a callback it replaced is never invoked afterwards; and the
\* wake cycle that finds fd ready takes the stored callback out and invokes
\* it, for the first and only time.
C24_OneCallbackPerFd ==
  [][/\ (nCalls' = nCalls + 1 /\ last'.op = "set")
          => (/\ wakers' = [wakers EXCEPT ![RawFd] = nextW]
              /\ nextW' = nextW + 1
              /\ woke' = woke)
     /\ \A w \in WakerIds : Replaced(w) => (woke'[w] = 0 /\ \A f \in Fds : wakers'[f] # w)
     /\ (loopPc = "wake" /\ loopPc' = "check")
          => \A f \in events :
               wakers[f] # NoWaker => (woke'[wakers[f]] = 1 /\ wakers'[f] = NoWaker)]_vars

C24_Witness ==
  /\ nextW = 3
  /\ owner[1] = "raw" /\ owner[2] = "raw"
  /\ Replaced(1)
  /\ woke[2] = 1
  /\ last.op = "add"
  /\ loopPc = "check"

\* the background thread finishes a wake cycle
WakeCycle == loopPc = "wake" /\ loopPc' = "check"

\* C25: a step of the background thread invokes a callback only as the wake
\* cycle's step, only for a descriptor that epoll_wait reported in that cycle
\* and for which the callback was stored, and takes it out of the map; the
\* invocation is the callback's first and only one; a reported descriptor
\* without a callback, and every descriptor not reported, is left alone.
\* (The one other step that invokes a callback is a client's remove_interest.)
C25_WakeOnlyReadyStored ==
  [][/\ \A w \in WakerIds :
          woke'[w] # woke[w]
            => \/ /\ WakeCycle
                  /\ \E f \in events : wakers[f] = w /\ wakers'[f] = NoWaker
                  /\ woke[w] = 0 /\ woke'[w] = 1
               \/ clPc = "rm" /\ clPc' = "idle"
     /\ WakeCycle
          => \A f \in Fds :
               (f \notin events \/ wakers[f] = NoWaker) => wakers'[f] = wakers[f]
     /\ (loopPc' # loopPc /\ ~WakeCycle) => (woke' = woke /\ wakers' = wakers)]_vars

C25_Witness ==
  /\ \E w \in WakerIds : woke[w] = 1 /\ owner[w] = "test"
  /\ wakers[TestFd] = NoWaker
  /\ loopPc = "check"
  /\ last.op = "none"

C25_WitnessNoCallback ==
  /\ testPc = "poll"
  /\ TestFd \in interest /\ TestFd \in level /\ TestFd \notin rdy
  /\ events = {}
  /\ loopPc = "check"
  /\ \A w \in WakerIds : woke[w] = 0

\* C27: a remove_interest call for a descriptor that is not registered
\* returns an error at once and changes nothing in the reactor: the
\* registrations, the pending notifications, the map and the invocation
\* counts are as before, also when a callback is stored for the descriptor.
C27_RemoveUnregisteredFails ==
  [][(nCalls' = nCalls + 1 /\ last'.op = "remove" /\ RawFd \notin interest)
       => (/\ last'.res \in {"ENOENT", "EBADF"}
           /\ clPc' = "idle"
           /\ interest' = interest
           /\ rdy' = rdy
           /\ wakers' = wakers
           /\ woke' = woke
           /\ notified' = notified)]_vars

C27_Witness ==
  /\ last = [op |-> "remove", res |-> "ENOENT"]
  /\ clPc = "idle"
  /\ wakers[RawFd] # NoWaker
  /\ woke[wakers[RawFd]] = 0
  /\ pendAtCall = wakers[RawFd]

\* a poll_next step that calls iface_dispatch and gets status 0
DispatchOk == nDispatch' = nDispatch + 1 /\ iface_dispatch_res = "OK"

\* poll_next goes for set_callback and Pending only from a dispatch call that
\* returned would-block, which it does when no record is buffered; the
\* stream is suspended, and a callback stored for the device descriptor,
\* only by that set_callback.
SuspendsOnWouldBlockOnly ==
  /\ (esPc # "setcb" /\ esPc' = "setcb")
       => (/\ nDispatch' = nDispatch + 1
           /\ iface_dispatch_res = "EAGAIN"
           /\ buf = <<>>)
  /\ (esPc # "suspended" /\ esPc' = "suspended")
       => (esPc = "setcb" /\ wakers'[DevFd] # NoWaker /\ esOut' = "pending")
  /\ wakers'[DevFd] \notin {wakers[DevFd], NoWaker} => esPc = "setcb"
  /\ DispatchOk => (wakers' = wakers /\ esPc' # "setcb")

\* C28, as claimed: poll_next suspends only after the dispatch call of the
\* same poll returned would-block, with no record left buffered; and a
\* successful dispatch stores no callback and leaves the stream interested.
C28_SuspendOnlyOnWouldBlock ==
  [][/\ SuspendsOnWouldBlockOnly
     /\ DispatchOk => have_interest']_vars

\* C28, amended: the same, with the stream left interested by the successful
\* dispatch of every record but the removal record (which ends the stream).
C28_SuspendOnlyOnWouldBlock_Amended ==
  [][/\ SuspendsOnWouldBlockOnly
     /\ (DispatchOk /\ Head(buf).type_ # "EVENT_GONE") => have_interest'
     /\ (DispatchOk /\ Head(buf).type_ = "EVENT_GONE") => ~have_interest']_vars

C28_Witness ==
  /\ esPc = "suspended"
  /\ esOut = "pending"
  /\ wakers[DevFd] # NoWaker
  /\ have_interest
  /\ Len(esYield) = 2
  /\ buf = <<>>

\* C29: while the monitor is enumerating its descriptor is not registered,
\* no callback is stored for it and it has made no add_interest call; the
\* monitor makes at most one add_interest call, has made exactly one once it
\* has left the enumeration with discovery asked for, and none when it was
\* created without discovery.
C29_RegisteredAtTransitionOnly ==
  /\ ~enumerated => (MonFd \notin interest /\ wakers[MonFd] = NoWaker /\ monAdds = 0)
  /\ monAdds <= 1
  /\ (enumerated /\ discover) => monAdds = 1
  /\ ~discover => (monAdds = 0 /\ MonFd \notin interest)

C29_Witness ==
  /\ enumerated
  /\ discover
  /\ monAdds = 1
  /\ MonFd \in interest
  /\ monPc = "suspended"
  /\ Len(monYield) = 2

\* C30: the decoder is not run on a removal record.  The record of the last
\* successful dispatch has the removal tag exactly when the stream has
\* intercepted it: the stream has then given up its interest and what the
\* decoder last produced is still what it made of the record before;  the
\* decoder's "unexpected removal event" failure never shows, and no yielded
\* event or failure stems from a removal record.
C30_DecoderNeverSeesRemoval ==
  /\ parsed # Panic("unexpected removal event")
  /\ (last_event.type_ = "EVENT_GONE") <=> gone
  /\ gone => (/\ ~have_interest
               /\ esOut # "panic"
               /\ parsed = IF esYield = <<>> THEN NotParsed ELSE esYield[Len(esYield)])
  /\ \A i \in 1..Len(esYield) : esYield[i] \in {Event_parse(r) : r \in DeviceRecords \ {GoneRecord}}

C30_Witness ==
  /\ gone
  /\ last_event = GoneRecord
  /\ esOut = "end"
  /\ esPc = "ready"
  /\ Len(esYield) = 1
  /\ parsed = esYield[1]

\* ------------------------------------------- the decoder's numeric fields

\* Mutant: the microseconds are taken for nanoseconds.
Event_time_Micros(raw) ==
  [secs |-> raw.time.tv_sec + (raw.time.tv_usec \div 1000000000),
   nanos |-> raw.time.tv_usec % 1000000000]

\* Event::parse: SystemTime::UNIX_EPOCH + Duration::new(tv_sec as u64,
\* tv_usec as u32 * 1000), as seconds and nanoseconds after the epoch.
\* Duration::new carries whole seconds out of the nanoseconds.  A timeval
\* has 0 <= tv_usec < 1000000 and the kernel's tv_sec is not negative, so
\* neither cast nor the product leaves its type's range.
Event_time(raw) ==
  [secs |-> raw.time.tv_sec + ((raw.time.tv_usec * 1000) \div 1000000000),
   nanos |-> (raw.time.tv_usec * 1000) % 1000000000]

\* Event::parse: Event { time, kind }
Event_parse_timed(raw) == [time |-> Event_time(raw)] @@ Event_parse(raw)

\* the tags whose records carry numbers, and the payload-less watch record
NumericTags ==
  {"EVENT_ACCEL", "EVENT_BALANCE_BOARD", "EVENT_MOTION_PLUS", "EVENT_PRO_CONTROLLER_MOVE",
   "EVENT_WATCH", "EVENT_CLASSIC_CONTROLLER_MOVE", "EVENT_NUNCHUK_MOVE"}

\* sample slots with values in and out of the triggers' range 0..63
SlotValues == {Pos(10, 20, 30), Pos(63, 0, -5), Pos(64, 255, 7), Pos(-1, 300, 8)}

\* timestamps of a record
TimeValues ==
  {[tv_sec |-> 0, tv_usec |-> 0], [tv_sec |-> 1, tv_usec |-> 999999],
   [tv_sec |-> 1700000000, tv_usec |-> 1]}

NumericInputs ==
  {AbsRecord(t, a) @@ [time |-> tm] :
     t \in NumericTags, a \in [1..MAX_IR_SOURCES -> SlotValues], tm \in TimeValues}

\* `let event = unsafe { Event::parse(&self.last_event) }`, the whole Event
ParseTimed ==
  /\ parsed = NotParsed
  /\ parsed' = Event_parse_timed(last_event)
  /\ UNCHANGED <<reactorVars, wakerVars, clientVars, lockVars, onceVars, devVars, srcVars, monVars,
                 esPc, have_interest, esOut, lastNew, gone, rmCalls, nDispatch, endPolled,
                 last_event, esStart, esYield>>

NumericInit ==
  InitReactor /\ InitRaw /\ level = {} /\ src0 = <<>> /\ InitStreamsBut
    /\ last_event \in NumericInputs /\ unopenable = {}
SpecNumeric == NumericInit /\ [][ParseTimed]_vars

\* what a trigger field holds for the record's value v
TriggerOf(v) == IF v \in 0..63 THEN v ELSE v % 256

\* C31: the decoded event's time is the epoch plus the record's seconds and
\* microseconds, and its numbers are the record's: accelerometer and
\* motion-plus x/y/z from slot 0, the four weights the x of slots 0..3, the
\* pro and classic sticks from slots 0 and 1, the classic triggers slot 2's
\* x and y (the same for 0..63, modulo 256 otherwise), the nunchuk's stick
\* from slot 0 and acceleration from slot 1, a watch record the marker
\* without payload.  (abs[i] of the source is abs[i + 1] here.)
C31_NumericRoundTrip ==
  parsed # NotParsed =>
    LET t == last_event.type_
        a == last_event.abs
        e == parsed
    IN
    /\ e.time.secs = last_event.time.tv_sec
    /\ e.time.nanos = 1000 * last_event.time.tv_usec
    /\ t = "EVENT_ACCEL" =>
         (e.kind = "Accelerometer" /\ e.x = a[1].x /\ e.y = a[1].y /\ e.z = a[1].z)
    /\ t = "EVENT_MOTION_PLUS" =>
         (e.kind = "MotionPlus" /\ e.x = a[1].x /\ e.y = a[1].y /\ e.z = a[1].z)
    /\ t = "EVENT_BALANCE_BOARD" =>
         (e.kind = "BalanceBoard" /\ e.weights = <<a[1].x, a[2].x, a[3].x, a[4].x>>)
    /\ t = "EVENT_PRO_CONTROLLER_MOVE" =>
         (/\ e.kind = "ProControllerMove"
          /\ e.left_x = a[1].x /\ e.left_y = a[1].y
          /\ e.right_x = a[2].x /\ e.right_y = a[2].y)
    /\ t = "EVENT_CLASSIC_CONTROLLER_MOVE" =>
         (/\ e.kind = "ClassicControllerMove"
          /\ e.left_x = a[1].x /\ e.left_y = a[1].y
          /\ e.right_x = a[2].x /\ e.right_y = a[2].y
          /\ e.left_trigger = TriggerOf(a[3].x)
          /\ e.right_trigger = TriggerOf(a[3].y)
          /\ e.left_trigger \in 0..255 /\ e.right_trigger \in 0..255)
    /\ t = "EVENT_NUNCHUK_MOVE" =>
         (/\ e.kind = "NunchukMove"
          /\ e.x = a[1].x /\ e.y = a[1].y
          /\ e.x_acceleration = a[2].x /\ e.y_acceleration = a[2].y)
    /\ t = "EVENT_WATCH" => (e.kind = "Other" /\ DOMAIN e = {"time", "kind"})

C31_Witness ==
  /\ parsed # NotParsed
  /\ last_event.type_ = "EVENT_CLASSIC_CONTROLLER_MOVE"
  /\ last_event.abs[3] = Pos(-1, 300, 8)
  /\ last_event.abs[1] = Pos(10, 20, 30)
  /\ last_event.abs[2] = Pos(63, 0, -5)
  /\ last_event.time = [tv_sec |-> 1, tv_usec |-> 999999]
  /\ parsed.left_trigger = 255
  /\ parsed.right_trigger = 44
  /\ parsed.time = [secs |-> 1, nanos |-> 999999000]

\* ------------------------------- a Device in use: calls, queries, a stream

\* Device::all_open(&self), a query
DevQuery ==
  /\ devAlive
  /\ chLast' = Call([op |-> "all_open", arg |-> {}, res |-> all_open])
  /\ UNCHANGED <<reactorVars, wakerVars, clientVars, lockVars, onceVars, buf, nArr, devFail, arrived,
                 opened, openedW, core_open, unopenable, motor, devAlive, released,
                 esVars, srcVars, monVars>>

\* open, close and rumble take `&mut self`: they cannot be called while an
\* EventStream borrows the Device.
DevMutCalls ==
  /\ ~Device_borrowed
  /\ \/ \E S \in SUBSET Channels, writable \in BOOLEAN : DevOpen(S, writable)
     \/ \E S \in SUBSET Channels : DevClose(S)
     \/ \E enabled \in BOOLEAN : DevRumble(enabled)

\* the stream of a device that sends nothing: created, polled, dropped
DevStream == EsTryNew \/ EsPoll \/ EsSetCallback \/ EsDrop \/ EsRemoveFinish

DeviceUseInit ==
  InitReactor /\ InitRaw /\ level = {} /\ src0 = <<>> /\ InitStreamsBut
    /\ last_event = DefaultEvent /\ unopenable = {"NUNCHUK"}
DeviceUseNext ==
  \/ DevMutCalls
  \/ DevQuery
  \/ \E c \in Channels : KernelClose(c)
  \/ DevStream
SpecDeviceUse == DeviceUseInit /\ [][DeviceUseNext]_vars

\* C32: the flag is true after a successful open of a set with the primary
\* channel and writable = true, false after a close of a set with the
\* primary channel, and no other step changes it: not a failed open, an open
\* without the primary channel or read-only, a query, a step of the event
\* stream or the kernel closing a channel.  (The open that rumble makes
\* through ensure_core_open is such an open(CORE, true).)
C32_FlagChangedByCallsOnly ==
  [][/\ (IsCall("open") /\ chLast'.res = "OK" /\ "CORE" \in chLast'.arg /\ chLast'.writable)
          => core_open'
     /\ (IsCall("close") /\ "CORE" \in chLast'.arg) => ~core_open'
     /\ core_open' # core_open
          => \/ /\ IsCall("open")
                /\ chLast'.res = "OK" /\ "CORE" \in chLast'.arg /\ chLast'.writable
             \/ IsCall("close") /\ "CORE" \in chLast'.arg
             \/ IsCall("rumble") /\ chLast'.opens /\ chLast'.openRes = "OK"]_vars

C32_Witness ==
  /\ core_open
  /\ "CORE" \notin opened
  /\ chLast.op = "all_open"
  /\ esPc = "suspended"

\* Calls on a Device whose channels the kernel leaves alone.
DeviceCallsNext ==
  \/ \E S \in SUBSET Channels, writable \in BOOLEAN : DevOpen(S, writable)
  \/ \E S \in SUBSET Channels : DevClose(S)
  \/ \E enabled \in BOOLEAN : DevRumble(enabled)
SpecDeviceCalls == DeviceInit /\ [][DeviceCallsNext]_vars

\* C37: with no channel closed by the kernel, whenever the flag is true the
\* primary channel is open, and open for writing.
C37_FlagImpliesWritable == core_open => ("CORE" \in opened /\ openedW)

\* What does hold without the kernel closing channels: a true flag means the
\* primary channel is open, in whichever mode it was first opened.
FlagImpliesOpen == core_open => "CORE" \in opened

FlagImpliesOpen_Reached ==
  /\ core_open
  /\ "CORE" \in opened
  /\ ~openedW
  /\ chLast.op = "rumble"
  /\ chLast.res = "ERR"

\* C33: however the threads' first calls to IoBlocker::get interleave, the
\* closure that builds the reactor is run by at most one of them, at most
\* one epoll instance is created and at most one background thread spawned;
\* every thread that has got an instance has got the one with that epoll
\* descriptor; and once get has returned anywhere, exactly one background
\* thread exists, and it runs the loop only on that instance.
C33_OneReactorOneLoop ==
  /\ Cardinality({t \in Tasks : getPc[t] \in {"spawn", "epoll"}}) <= 1
  /\ nEp <= 1
  /\ Len(loopT) <= 1
  /\ \A t \in Tasks : (getPc[t] = "got") <=> (got[t] # 0)
  /\ \A t \in Tasks : got[t] # 0 => (got[t] = nEp /\ lazy = "done")
  /\ lazy = "done" => (nEp = 1 /\ Len(loopT) = 1 /\ loopT[1] \in {"get", "run"})
  /\ \A i \in 1..Len(loopT) : loopT[i] = "run" => lazy = "done"

C33_Witness ==
  /\ \A t \in Tasks : got[t] = 1
  /\ loopT = <<"run">>
  /\ nEp = 1

\* ------------------------------------------- one registered stream per device

\* A stream that exists and can still be polled or dropped.
LiveStream == esPc \in {"ready", "suspended"}

\* C34: at most one EventStream per Device holds a registered interest.
\* While a live stream holds its interest, a try_new for the same device
\* would not succeed; and a try_new made then returns an error, leaves the
\* first stream as it was (its flag, its position, nothing deregistered
\* then or by a later drop of a value that was never built) and leaves the
\* registration, the pending readiness and the stored wake callback intact.
C34_SecondStreamRejected ==
  /\ [](LiveStream /\ have_interest => ctl_interest_res("ADD", DevFd) # "OK")
  /\ [][(LiveStream /\ have_interest /\ lastNew' # lastNew)
          => /\ lastNew' \in {"EEXIST", "EBADF"}
             /\ DevFd \in interest => lastNew' = "EEXIST"
             /\ UNCHANGED <<interest, rdy, events, wakers, woke, notified,
                            esPc, have_interest, esOut, rmCalls, gone, esStart>>]_vars

C34_Witness ==
  /\ lastNew = "EEXIST"
  /\ esPc = "suspended"
  /\ have_interest
  /\ DevFd \in interest
  /\ wakers[DevFd] # NoWaker
  /\ "es" \notin notified

\* ------------------------------------------------- the stream's wake-ups

\* Record arrival, the background loop and one consumer that polls its
\* stream at first, after every item and whenever its waker was invoked.
WakeupNext ==
  \/ LoopNext
  \/ \E rec \in DeviceRecords : Arrive(rec)
  \/ EsTryNew \/ EsPoll \/ EsSetCallback \/ EsRemoveFinish
SpecWakeup == EventInit /\ [][WakeupNext]_vars

\* The background thread and the consumer's executor keep taking their
\* steps; nothing obliges the device to send another record.
FairWakeup ==
  /\ SpecWakeup
  /\ WF_vars(LoopNext)
  /\ WF_vars(EsPoll)
  /\ WF_vars(EsSetCallback)
  /\ WF_vars(EsRemoveFinish)

\* The consumer is on its way to suspension or suspended.
Suspending == esPc \in {"setcb", "suspended"}

\* C35: no lost wake-up.  A consumer whose dispatch returned would-block and
\* for whose device a record is buffered, whether the record arrived before
\* or after the wake callback was stored, is eventually woken: it does not
\* stay suspended with the record buffered.
C35_NoLostWakeup ==
  (Suspending /\ buf # <<>>) ~> ("es" \in notified \/ ~Suspending)

\* The state the race leaves behind: the consumer suspended with its
\* callback stored and a record buffered, the loop blocked in epoll_wait,
\* and the record's readiness edge already consumed.
LostWakeup ==
  /\ esPc = "suspended"
  /\ buf # <<>>
  /\ have_interest
  /\ wakers[DevFd] # NoWaker
  /\ "es" \notin notified
  /\ DevFd \notin rdy
  /\ DevFd \notin events
  /\ loopPc = "wait"

\* A record that arrives while the callback is already stored is not lost.
StoredCallbackWoken ==
  [][(esPc = "suspended" /\ wakers[DevFd] # NoWaker /\ buf = <<>> /\ buf' # <<>>)
       => DevFd \in rdy']_vars

\* ------------------------------------------- callbacks and registrations

\* The descriptors of the two streams.
StreamFds == {DevFd, MonFd}

\* C36: a wake callback is stored in the reactor's map for a stream's
\* descriptor only while that descriptor's interest is registered, for the
\* EventStream's and for the Monitor's descriptor alike.
C36_CallbackOnlyWhileRegistered ==
  \A f \in StreamFds : wakers[f] # NoWaker => f \in interest

\* The monitor suspended on a descriptor it never registered: its only
\* add_interest call failed, the consumer polled again, and the loop's
\* epoll instance does not know the descriptor.
MonitorSuspendedUnregistered ==
  /\ monPc = "suspended"
  /\ enumerated
  /\ monAdds = 1
  /\ ~monReg
  /\ wakers[MonFd] # NoWaker
  /\ MonFd \notin interest

\* An EventStream suspended with its callback stored after the loop has
\* returned and closed the epoll descriptor, and with it every registration.
StreamSuspendedAfterLoopExit ==
  /\ esPc = "suspended"
  /\ have_interest
  /\ wakers[DevFd] # NoWaker
  /\ EpClosed
  /\ DevFd \notin interest

\* What holds while the loop's epoll instance is open: a stored callback of
\* a stream belongs to a registered descriptor, or to a stream that is
\* inside remove_interest, between the epoll_ctl(DEL) and the map removal.
\* The monitor's failed add_interest needs the instance closed in this
\* model (the only failure of epoll_ctl(ADD) for a fresh descriptor that it
\* has).
CallbackRegisteredWhileOpen ==
  ~EpClosed =>
    /\ wakers[DevFd] # NoWaker => (DevFd \in interest \/ esPc \in {"rm_poll", "rm_drop"})
    /\ wakers[MonFd] # NoWaker => (MonFd \in interest \/ monPc = "rm_drop")

====
